---- MODULE Spec2Model ----
(***************************************************************************)
(* A model of octant's curvilinear C-grid (octant/grid.py, CGrid) and of   *)
(* its s-coordinate depth code (octant/depths.py, octant/roms.py           *)
(* nc_depths, octant/ocean/depths.py Depths).                              *)
(*                                                                         *)
(* Numbers.  Grid coordinates are integers that are multiples of 4, so     *)
(* that the code's 0.25*(a+b+c+d) and 0.5*(a+b) are exact integer          *)
(* divisions.  A square root is kept as the tagged radicand sqrt(r).       *)
(* Depth quantities are exact rationals <<n, d>>.                          *)
(***************************************************************************)
EXTENDS Integers, Sequences, FiniteSets, TLC

VARIABLES
    \* ---- CGrid (octant/grid.py) ----
    x_vert, y_vert,     \* vertex arrays, shape (Ny+1, Nx+1); may be MaskedArrays
    lon_vert, lat_vert, \* None for a Cartesian grid
    mask_rho,           \* the rho mask, dtype 'd'
    x_rho, y_rho,       \* attributes assigned by _calculate_subgrids
    x_u, y_u, x_v, y_v,
    dx, dy, angle_rho,  \* attributes assigned by _calculate_metrics
    angle,              \* the grid angle at the vertices (_calculate_metrics)
    proj,               \* None for a Cartesian grid, else the projection
    lat_rho,            \* latitude of the rho points (None if proj is None)
    f,                  \* the Coriolis parameter
    ctor,               \* the arguments the constructor was called with
    mask_arg,           \* the constructor's mask argument (None or an array)
    raised,             \* the exception the last call ended with ("" if none)
    polygon,            \* the arguments of the mask_polygon call just made, or None
    nedits              \* number of in-place writes and calls made so far

VARIABLES
    \* ---- octant/depths.py: one call of get_zw / get_zrho ----
    call,               \* the call's arguments
    levels,             \* the s-levels sw or srho the wrapper computed
    curve,              \* the arguments the stretching curve C was built from
    depths,             \* what get_depths returned: "function" or "None" ("" before)
    z,                  \* the array the call returned, or the exception raised
    dpc                 \* "called", "levels", "curve", "depths", "returned" or "raised"

VARIABLES
    \* ---- depth objects (octant/roms.py nc_depths, octant/ocean Depths) ----
    args,               \* the constructor's arguments
    self,               \* the object's attributes once constructed
    last_key,           \* the key of the last index operation
    result,             \* what the last index operation returned or raised
    zeta_reads          \* the requests the last call made of the zeta reference

VARIABLES
    \* ---- octant/tools.py, cf.py, getm.py, roms.py nc_grid, ocean/step3d_t.py ----
    shrk,               \* the frame of one call of tools.shrink
    iso,                \* one call of tools.isoslice / surface / iso_integrate
    cft,                \* a cf.time object and the variable it was read from
    bdy,                \* a getm.Bdy2d object and the file it writes
    st3,                \* an ocean.Step3d_t object and the file it reads
    ncgrid              \* one call of roms.nc_grid

gridvars == <<x_vert, y_vert, lon_vert, lat_vert, mask_rho, x_rho, y_rho,
              x_u, y_u, x_v, y_v, dx, dy, angle_rho, angle, proj, lat_rho, f,
              ctor, mask_arg, raised, polygon, nedits>>

depthvars == <<call, levels, curve, depths, z, dpc>>

objvars == <<args, self, last_key, result, zeta_reads>>

toolvars == <<shrk, iso, cft, bdy, st3, ncgrid>>

vars == <<gridvars, depthvars, objvars, toolvars>>

(***************************************************************************)
(* Bounds of the model.                                                    *)
(***************************************************************************)
MaxNy == 2
MaxNx == 3
MaxEdits == 2

None == [none |-> TRUE]

\* the variables of the parts of the library a run does not exercise
no_depths_call ==
    /\ call = None /\ levels = None /\ curve = None /\ depths = "" /\ z = None
    /\ dpc = "idle"

no_depth_object ==
    args = None /\ self = None /\ last_key = None /\ result = None /\ zeta_reads = <<>>

\* none of the calls and objects of the last group exists, but for the one named
no_tools_but(name) ==
    /\ IF name = "shrk" THEN TRUE ELSE shrk = None
    /\ IF name = "iso" THEN TRUE ELSE iso = None
    /\ IF name = "cft" THEN TRUE ELSE cft = None
    /\ IF name = "bdy" THEN TRUE ELSE bdy = None
    /\ IF name = "st3" THEN TRUE ELSE st3 = None
    /\ IF name = "ncgrid" THEN TRUE ELSE ncgrid = None

no_tools == no_tools_but("")

no_grid ==
    /\ x_vert = None /\ y_vert = None /\ lon_vert = None /\ lat_vert = None
    /\ mask_rho = None /\ x_rho = None /\ y_rho = None /\ x_u = None /\ y_u = None
    /\ x_v = None /\ y_v = None /\ dx = None /\ dy = None /\ angle_rho = None
    /\ angle = None /\ proj = None /\ lat_rho = None /\ f = None /\ ctor = None
    /\ mask_arg = None /\ raised = "" /\ polygon = None /\ nedits = 0

(***************************************************************************)
(* 2-D numpy arrays: shape (nr, nc), 0-based index pairs.  masked says     *)
(* whether the object is a numpy.ma.MaskedArray; mask is its mask (all     *)
(* FALSE for a plain ndarray).  Data under the mask is not observable      *)
(* through the masked interface and is kept as 0 in derived arrays.        *)
(***************************************************************************)
Idx(nr, nc) == (0 .. (nr - 1)) \X (0 .. (nc - 1))

Max0(n) == IF n < 0 THEN 0 ELSE n

ndarray(nr, nc, F(_, _)) ==
    [nr |-> nr, nc |-> nc, masked |-> FALSE,
     v |-> [p \in Idx(nr, nc) |-> F(p[1], p[2])],
     mask |-> [p \in Idx(nr, nc) |-> FALSE]]

MaskedArray(nr, nc, F(_, _), M(_, _)) ==
    [nr |-> nr, nc |-> nc, masked |-> TRUE,
     v |-> [p \in Idx(nr, nc) |-> F(p[1], p[2])],
     mask |-> [p \in Idx(nr, nc) |-> M(p[1], p[2])]]

shape(a) == <<a.nr, a.nc>>

\* a[r0:nr-r1, c0:nc-c1]: the slices the code takes are [1:], [:-1], [1:-1], [:]
Slice(a, r0, r1, c0, c1) ==
    LET nr == Max0(a.nr - r0 - r1)
        nc == Max0(a.nc - c0 - c1)
    IN  [nr |-> nr, nc |-> nc, masked |-> a.masked,
         v |-> [p \in Idx(nr, nc) |-> a.v[<<p[1] + r0, p[2] + c0>>]],
         mask |-> [p \in Idx(nr, nc) |-> a.mask[<<p[1] + r0, p[2] + c0>>]]]

\* elementwise a + b of two arrays of one shape; a masked operand masks the result
Add(a, b) ==
    [nr |-> a.nr, nc |-> a.nc, masked |-> a.masked \/ b.masked,
     v |-> [p \in Idx(a.nr, a.nc) |->
               IF a.mask[p] \/ b.mask[p] THEN 0 ELSE a.v[p] + b.v[p]],
     mask |-> [p \in Idx(a.nr, a.nc) |-> a.mask[p] \/ b.mask[p]]]

\* (1/k) * a, exact because vertex coordinates are multiples of 4
Over(k, a) == [a EXCEPT !.v = [p \in Idx(a.nr, a.nc) |-> a.v[p] \div k]]

\* np.diff(a, axis=1) and np.diff(a, axis=0)
diff1(a) ==
    LET hi == Slice(a, 0, 0, 1, 0)
        lo == Slice(a, 0, 0, 0, 1)
    IN  [nr |-> hi.nr, nc |-> hi.nc, masked |-> a.masked,
         v |-> [p \in Idx(hi.nr, hi.nc) |->
                   IF hi.mask[p] \/ lo.mask[p] THEN 0 ELSE hi.v[p] - lo.v[p]],
         mask |-> [p \in Idx(hi.nr, hi.nc) |-> hi.mask[p] \/ lo.mask[p]]]

diff0(a) ==
    LET hi == Slice(a, 1, 0, 0, 0)
        lo == Slice(a, 0, 1, 0, 0)
    IN  [nr |-> hi.nr, nc |-> hi.nc, masked |-> a.masked,
         v |-> [p \in Idx(hi.nr, hi.nc) |->
                   IF hi.mask[p] \/ lo.mask[p] THEN 0 ELSE hi.v[p] - lo.v[p]],
         mask |-> [p \in Idx(hi.nr, hi.nc) |-> hi.mask[p] \/ lo.mask[p]]]

\* np.sqrt(r): the value is kept as its radicand, tagged
sqrt(r) == [sqrt |-> r]

\* np.sqrt(a**2 + b**2), elementwise
hypot(a, b) ==
    [nr |-> a.nr, nc |-> a.nc, masked |-> a.masked \/ b.masked,
     v |-> [p \in Idx(a.nr, a.nc) |->
               IF a.mask[p] \/ b.mask[p] THEN sqrt(0)
               ELSE sqrt(a.v[p] * a.v[p] + b.v[p] * b.v[p])],
     mask |-> [p \in Idx(a.nr, a.nc) |-> a.mask[p] \/ b.mask[p]]]

RECURSIVE gcd(_, _)
gcd(a, b) == IF b = 0 THEN a ELSE gcd(b, a % b)

Abs(n) == IF n < 0 THEN -n ELSE n

\* np.arctan2(y, x): the angle is kept as the reduced direction (y, x);
\* arctan2(0, 0) = 0 is the direction (0, 1)
arctan2(y, x) ==
    IF x = 0 /\ y = 0 THEN [atan2 |-> <<0, 1>>]
    ELSE LET g == gcd(Abs(y), Abs(x)) IN [atan2 |-> <<y \div g, x \div g>>]

arctan2_arr(a, b) ==
    [nr |-> a.nr, nc |-> a.nc, masked |-> a.masked \/ b.masked,
     v |-> [p \in Idx(a.nr, a.nc) |->
               IF a.mask[p] \/ b.mask[p] THEN arctan2(0, 0)
               ELSE arctan2(a.v[p], b.v[p])],
     mask |-> [p \in Idx(a.nr, a.nc) |-> a.mask[p] \/ b.mask[p]]]

(***************************************************************************)
(* CGrid._calculate_subgrids and CGrid._calculate_metrics (Cartesian       *)
(* branch; proj is None).  dndx, dmde and angle are assigned by the same   *)
(* call from dx, dy and the vertex differences and are never reassigned;   *)
(* they are not represented.                                               *)
(***************************************************************************)
_calculate_subgrids_swapped(xv, yv) ==
    [x_rho |-> Over(4, Add(Add(Add(Slice(xv, 1, 0, 1, 0), Slice(xv, 1, 0, 0, 1)),
                               Slice(xv, 0, 1, 1, 0)), Slice(xv, 0, 1, 0, 1))),
     y_rho |-> Over(4, Add(Add(Add(Slice(yv, 1, 0, 1, 0), Slice(yv, 1, 0, 0, 1)),
                               Slice(yv, 0, 1, 1, 0)), Slice(yv, 0, 1, 0, 1))),
     x_u |-> Over(2, Add(Slice(xv, 1, 1, 0, 1), Slice(xv, 1, 1, 1, 0))),
     y_u |-> Over(2, Add(Slice(yv, 1, 1, 0, 1), Slice(yv, 1, 1, 1, 0))),
     x_v |-> Over(2, Add(Slice(xv, 0, 1, 1, 1), Slice(xv, 1, 0, 1, 1))),
     y_v |-> Over(2, Add(Slice(yv, 0, 1, 1, 1), Slice(yv, 1, 0, 1, 1)))]

_calculate_subgrids_untrimmed(xv, yv) ==
    [x_rho |-> Over(4, Add(Add(Add(Slice(xv, 1, 0, 1, 0), Slice(xv, 1, 0, 0, 1)),
                               Slice(xv, 0, 1, 1, 0)), Slice(xv, 0, 1, 0, 1))),
     y_rho |-> Over(4, Add(Add(Add(Slice(yv, 1, 0, 1, 0), Slice(yv, 1, 0, 0, 1)),
                               Slice(yv, 0, 1, 1, 0)), Slice(yv, 0, 1, 0, 1))),
     x_u |-> Over(2, Add(Slice(xv, 0, 1, 0, 2), Slice(xv, 1, 0, 0, 2))),
     y_u |-> Over(2, Add(Slice(yv, 0, 1, 0, 2), Slice(yv, 1, 0, 0, 2))),
     x_v |-> Over(2, Add(Slice(xv, 1, 1, 0, 1), Slice(xv, 1, 1, 1, 0))),
     y_v |-> Over(2, Add(Slice(yv, 1, 1, 0, 1), Slice(yv, 1, 1, 1, 0)))]

_calculate_subgrids(xv, yv) ==
    [x_rho |-> Over(4, Add(Add(Add(Slice(xv, 1, 0, 1, 0), Slice(xv, 1, 0, 0, 1)),
                               Slice(xv, 0, 1, 1, 0)), Slice(xv, 0, 1, 0, 1))),
     y_rho |-> Over(4, Add(Add(Add(Slice(yv, 1, 0, 1, 0), Slice(yv, 1, 0, 0, 1)),
                               Slice(yv, 0, 1, 1, 0)), Slice(yv, 0, 1, 0, 1))),
     x_u |-> Over(2, Add(Slice(xv, 0, 1, 1, 1), Slice(xv, 1, 0, 1, 1))),
     y_u |-> Over(2, Add(Slice(yv, 0, 1, 1, 1), Slice(yv, 1, 0, 1, 1))),
     x_v |-> Over(2, Add(Slice(xv, 1, 1, 0, 1), Slice(xv, 1, 1, 1, 0))),
     y_v |-> Over(2, Add(Slice(yv, 1, 1, 0, 1), Slice(yv, 1, 1, 1, 0)))]

\* x_psi and y_psi are numpy views of the vertex arrays (basic slicing)
x_psi == Slice(x_vert, 1, 1, 1, 1)
y_psi == Slice(y_vert, 1, 1, 1, 1)

_calculate_metrics_unhalved(xv, yv) ==
    LET x_temp0 == Add(Slice(xv, 1, 0, 0, 0), Slice(xv, 0, 1, 0, 0))
        y_temp0 == Add(Slice(yv, 1, 0, 0, 0), Slice(yv, 0, 1, 0, 0))
        x_temp1 == Add(Slice(xv, 0, 0, 1, 0), Slice(xv, 0, 0, 0, 1))
        y_temp1 == Add(Slice(yv, 0, 0, 1, 0), Slice(yv, 0, 0, 0, 1))
    IN  [dx |-> hypot(diff1(x_temp0), diff1(y_temp0)),
         dy |-> hypot(diff0(x_temp1), diff0(y_temp1)),
         angle_rho |-> arctan2_arr(diff1(y_temp0), diff1(x_temp0))]

_calculate_metrics(xv, yv) ==
    LET x_temp0 == Over(2, Add(Slice(xv, 1, 0, 0, 0), Slice(xv, 0, 1, 0, 0)))
        y_temp0 == Over(2, Add(Slice(yv, 1, 0, 0, 0), Slice(yv, 0, 1, 0, 0)))
        x_temp1 == Over(2, Add(Slice(xv, 0, 0, 1, 0), Slice(xv, 0, 0, 0, 1)))
        y_temp1 == Over(2, Add(Slice(yv, 0, 0, 1, 0), Slice(yv, 0, 0, 0, 1)))
    IN  [dx |-> hypot(diff1(x_temp0), diff1(y_temp0)),
         dy |-> hypot(diff0(x_temp1), diff0(y_temp1)),
         angle_rho |-> arctan2_arr(diff1(y_temp0), diff1(x_temp0))]

\* the vertex angle: an entry is a mean, kept as the number over of terms
\* and the terms themselves; a term <<"ud", a>> is the angle a and a term
\* <<"lr", a>> is a - pi/2
angle_entry(ud, lr, Ny_, Nx_, i, j) ==
    LET U(r, c) == <<"ud", ud.v[<<r, c>>], ud.mask[<<r, c>>]>>
        L(r, c) == <<"lr", lr.v[<<r, c>>], lr.mask[<<r, c>>]>>
        top == i = 0
        bot == i = Ny_
        lft == j = 0
        rgt == j = Nx_
    IN  CASE top /\ lft -> <<L(0, 0), U(0, 0)>>
          [] top /\ rgt -> <<L(0, Nx_), U(0, Nx_ - 1)>>
          [] bot /\ lft -> <<L(Ny_ - 1, 0), U(Ny_, 0)>>
          [] bot /\ rgt -> <<L(Ny_ - 1, Nx_), U(Ny_, Nx_ - 1)>>
          [] top /\ ~lft /\ ~rgt -> <<L(0, j), U(0, j), U(0, j - 1)>>
          [] bot /\ ~lft /\ ~rgt -> <<L(Ny_ - 1, j), U(Ny_, j), U(Ny_, j - 1)>>
          [] lft /\ ~top /\ ~bot -> <<U(i, 0), L(i, 0), L(i - 1, 0)>>
          [] rgt /\ ~top /\ ~bot -> <<U(i, Nx_ - 1), L(i, Nx_), L(i - 1, Nx_)>>
          [] OTHER -> <<U(i, j), U(i, j - 1), L(i, j), L(i - 1, j)>>

\* self.angle, lines 632-653: corners are means of 2, edges of 3 and
\* interior vertices of 4 of the angles of the adjacent vertex segments
_calculate_angle(xv, yv) ==
    LET angle_ud == arctan2_arr(diff1(yv), diff1(xv))
        angle_lr == arctan2_arr(diff0(yv), diff0(xv))
        e(i, j) == angle_entry(angle_ud, angle_lr, xv.nr - 1, xv.nc - 1, i, j)
        m(i, j) == \E k \in 1 .. Len(e(i, j)) : e(i, j)[k][3]
    IN  [nr |-> xv.nr, nc |-> xv.nc, masked |-> xv.masked \/ yv.masked,
         v |-> [q \in Idx(xv.nr, xv.nc) |->
                   IF m(q[1], q[2]) THEN [over |-> 1, terms |-> <<>>]
                   ELSE [over |-> Len(e(q[1], q[2])),
                         terms |-> [k \in 1 .. Len(e(q[1], q[2])) |->
                                      <<e(q[1], q[2])[k][1], e(q[1], q[2])[k][2]>>]]],
         mask |-> [q \in Idx(xv.nr, xv.nc) |-> m(q[1], q[2])]]

\* GreatCircle(6378137.0, 6356752.3142, lon1, lat1, lon2, lat2).distance,
\* kept as the tagged end points
gc_dist(lon1, lat1, lon2, lat2) == [distance |-> <<lon1, lat1, lon2, lat2>>]

\* dx and dy of a geographic grid (lines 600-611): means of two great-circle
\* distances, kept as the tagged pair
_calculate_metrics_geo(lon, lat) ==
    LET ddx(i, j) == gc_dist(lon.v[<<i, j + 1>>], lat.v[<<i, j + 1>>],
                             lon.v[<<i, j>>], lat.v[<<i, j>>])
        ddy(i, j) == gc_dist(lon.v[<<i + 1, j>>], lat.v[<<i + 1, j>>],
                             lon.v[<<i, j>>], lat.v[<<i, j>>])
    IN  [dx |-> ndarray(lon.nr - 1, lon.nc - 1,
                        LAMBDA i, j : [half_sum |-> <<ddx(i + 1, j), ddx(i, j)>>]),
         dy |-> ndarray(lon.nr - 1, lon.nc - 1,
                        LAMBDA i, j : [half_sum |-> <<ddy(i, j + 1), ddy(i, j)>>])]

(***************************************************************************)
(* CGrid.__init__: the rho mask.                                           *)
(***************************************************************************)
\* vert.mask[:-1,:-1] | vert.mask[1:,:-1] | vert.mask[:-1,1:] | vert.mask[1:,1:]
corner_mask(vert) ==
    LET a == Slice(vert, 0, 1, 0, 1)
        b == Slice(vert, 1, 0, 0, 1)
        c == Slice(vert, 0, 1, 1, 0)
        d == Slice(vert, 1, 0, 1, 0)
    IN  [nr |-> a.nr, nc |-> a.nc,
         v |-> [p \in Idx(a.nr, a.nc) |->
                   a.mask[p] \/ b.mask[p] \/ c.mask[p] \/ d.mask[p]]]

\* numpy broadcasting of two 2-D shapes
bdim(m, n) == IF m = n THEN m ELSE IF m = 1 THEN n ELSE IF n = 1 THEN m ELSE -1

broadcastable(a, b) == bdim(a.nr, b.nr) >= 0 /\ bdim(a.nc, b.nc) >= 0

bidx(a, p) == <<IF a.nr = 1 THEN 0 ELSE p[1], IF a.nc = 1 THEN 0 ELSE p[2]>>

\* np.asarray(~(~np.bool_(mrho) | mask), dtype='d')
combine_mask(mrho, mask) ==
    LET nr == bdim(mrho.nr, mask.nr)
        nc == bdim(mrho.nc, mask.nc)
    IN  ndarray(nr, nc,
                LAMBDA i, j : IF ~(~(mrho.v[bidx(mrho, <<i, j>>)] # 0)
                                   \/ mask.v[bidx(mask, <<i, j>>)])
                              THEN 1 ELSE 0)

ones(nr, nc) == ndarray(nr, nc, LAMBDA i, j : 1)

\* isinstance(vert, np.ma.MaskedArray); None is not one
isMasked(vert) == vert # None /\ vert.masked

\* lines 541-569: the mask after each of the four isinstance blocks
mask_step(mrho, vert) ==
    IF isMasked(vert) THEN combine_mask(mrho, corner_mask(vert)) ELSE mrho

mask_step_ok(mrho, vert) ==
    isMasked(vert) => broadcastable(mrho, corner_mask(vert))

init_mask_rho_lax(xv, yv, lonv, latv, mask) ==
    LET m0 == IF mask = None THEN ones(xv.nr - 1, xv.nc - 1) ELSE mask
        m1 == mask_step(m0, xv)
    IN  mask_step(mask_step(m1, lonv), latv)

init_mask_rho(xv, yv, lonv, latv, mask) ==
    LET m0 == IF mask = None THEN ones(xv.nr - 1, xv.nc - 1) ELSE mask
        m1 == mask_step(m0, xv)
        m2 == mask_step(m1, yv)
        m3 == mask_step(m2, lonv)
    IN  mask_step(m3, latv)

\* whether __init__ completes (the mask expressions broadcast)
init_ok(xv, yv, lonv, latv, mask) ==
    LET m0 == IF mask = None THEN ones(xv.nr - 1, xv.nc - 1) ELSE mask
    IN  /\ mask_step_ok(m0, xv)
        /\ mask_step_ok(mask_step(m0, xv), yv)

(***************************************************************************)
(* CGrid.__init__ as a whole.  The arguments are a record                  *)
(*   [x, y, x_isnan, y_isnan, proj, mask, f]                               *)
(* where x_isnan and y_isnan are the sets of indices at which the plain    *)
(* arrays x and y hold NaN.  The projection is a callable supplied by the  *)
(* caller; the one the model passes scales both coordinates by proj.scale  *)
(* and divides by it when called with inverse=True.                        *)
(***************************************************************************)
\* self.proj(x, y) and self.proj(x, y, inverse=True)
proj_call(p, x, y, inverse) ==
    LET conv(a) == [a EXCEPT !.v = [q \in Idx(a.nr, a.nc) |->
                        IF inverse THEN a.v[q] \div p.scale ELSE a.v[q] * p.scale]]
    IN  <<conv(x), conv(y)>>

\* np.ma.masked_where(condition, a)
masked_where(condition, a) ==
    [nr |-> a.nr, nc |-> a.nc, masked |-> TRUE,
     v |-> [q \in Idx(a.nr, a.nc) |-> IF q \in condition THEN 0 ELSE a.v[q]],
     mask |-> [q \in Idx(a.nr, a.nc) |-> q \in condition]]

\* lines 528-529 call the bare name isnan; grid.py imports numpy as np
\* only and defines no name isnan
isnan_is_defined == FALSE

\* sin and cos of an angle in degrees, kept as the sine of an angle in
\* [-90, 90]: cos(d) = sin(90 - d); latitudes lie in [-90, 90]
sin_deg(d) == [sin |-> d]
cos_deg(d) == sin_deg(IF d >= 0 THEN 90 - d ELSE 90 + d)

\* the rotation rate in line 574, 7.29e-5, in units of 1e-7 rad/s
Omega == 729

\* line 574: 2 * 7.29e-5 * np.cos(self.lat_rho * np.pi / 180.); an entry
\* is kept as the pair of the numeric factor and the trigonometric one
Coriolis(lat) ==
    [lat EXCEPT !.v = [q \in Idx(lat.nr, lat.nc) |-> <<2 * Omega, cos_deg(lat.v[q])>>]]

\* line 576: np.asarray(f, dtype='d'); None becomes a 0-d array of nan
asarray_d(f_arg) == IF f_arg = None THEN [nan |-> TRUE] ELSE [scalar |-> f_arg.float]

\* the exception __init__ ends with, "" if it returns
CGrid_raises(a) ==
    LET has_nan == a.x_isnan # {} \/ a.y_isnan # {}
        x == IF has_nan THEN masked_where(a.x_isnan, a.x) ELSE a.x
        y == IF has_nan THEN masked_where(a.y_isnan, a.y) ELSE a.y
        xy == IF a.proj # None THEN proj_call(a.proj, x, y, FALSE) ELSE <<x, y>>
        lonv == IF a.proj # None THEN x ELSE None
        latv == IF a.proj # None THEN y ELSE None
    IN  IF shape(a.x) # shape(a.y) THEN "AssertionError"
        ELSE IF has_nan /\ ~isnan_is_defined THEN "NameError"
        ELSE IF ~init_ok(xy[1], xy[2], lonv, latv, a.mask) THEN "ValueError"
        ELSE ""

\* the attributes __init__ assigns when it returns
CGrid_init(a) ==
    LET has_nan == a.x_isnan # {} \/ a.y_isnan # {}
        x == IF has_nan THEN masked_where(a.x_isnan, a.x) ELSE a.x
        y == IF has_nan THEN masked_where(a.y_isnan, a.y) ELSE a.y
        xy == IF a.proj # None THEN proj_call(a.proj, x, y, FALSE) ELSE <<x, y>>
        xv == xy[1]
        yv == xy[2]
        lonv == IF a.proj # None THEN x ELSE None
        latv == IF a.proj # None THEN y ELSE None
        sub == _calculate_subgrids(xv, yv)
        met == _calculate_metrics(xv, yv)
        geo == _calculate_metrics_geo(lonv, latv)
        lat == IF a.proj # None
               THEN proj_call(a.proj, sub.x_rho, sub.y_rho, TRUE)[2] ELSE None
    IN  [x_vert |-> xv, y_vert |-> yv, lon_vert |-> lonv, lat_vert |-> latv,
         mask_rho |-> init_mask_rho(xv, yv, lonv, latv, a.mask),
         x_rho |-> sub.x_rho, y_rho |-> sub.y_rho,
         x_u |-> sub.x_u, y_u |-> sub.y_u, x_v |-> sub.x_v, y_v |-> sub.y_v,
         dx |-> IF a.proj # None THEN geo.dx ELSE met.dx,
         dy |-> IF a.proj # None THEN geo.dy ELSE met.dy,
         angle_rho |-> met.angle_rho,
         angle |-> _calculate_angle(xv, yv),
         proj |-> a.proj,
         lat_rho |-> lat,
         f |-> IF a.proj # None /\ a.f = None THEN Coriolis(lat) ELSE asarray_d(a.f)]

(***************************************************************************)
(* octant/extern/polygeom.py: npnpoly (W. R. Franklin's crossing test) and *)
(* PolygonGeometry.  A polygon is a sequence of points <<x, y>>.           *)
(***************************************************************************)
\* line 148-149: close the polygon if needed
close_polygon(verts) ==
    IF verts[1] = verts[Len(verts)] THEN verts ELSE Append(verts, verts[1])

\* edge i runs from vertex j = i-1 (cyclically) to vertex i; the test
\*   x < (xpj - xpi) * (y - ypi) / (ypj - ypi) + xpi
\* is evaluated exactly by multiplying out the (nonzero) divisor
crosses(verts, i, x, y) ==
    LET j == IF i = 1 THEN Len(verts) ELSE i - 1
        xpi == verts[i][1]
        ypi == verts[i][2]
        xpj == verts[j][1]
        ypj == verts[j][2]
    IN  /\ (ypi <= y /\ y < ypj) \/ (ypj <= y /\ y < ypi)
        /\ IF ypj - ypi > 0
           THEN (x - xpi) * (ypj - ypi) < (xpj - xpi) * (y - ypi)
           ELSE (x - xpi) * (ypj - ypi) > (xpj - xpi) * (y - ypi)

npnpoly(verts, x, y) ==
    Cardinality({i \in 1 .. Len(verts) : crosses(verts, i, x, y)}) % 2 = 1

\* PolygonGeometry.__new__ ends with verts.view(Polygeom): the module
\* defines no name Polygeom (the class is PolygonGeometry)
Polygeom_is_defined == FALSE

\* the exception PolygonGeometry(polyverts) ends with, "" if none
PolygonGeometry_raises(polyverts) ==
    IF Len(polyverts) < 3 THEN "AssertionError"
    ELSE IF ~Polygeom_is_defined THEN "NameError"
    ELSE ""

(***************************************************************************)
(* CGrid construction: the inputs the model draws.                         *)
(***************************************************************************)
\* vertex coordinates: a grid of spacing 8, rows sheared by 4*shear
vert_x(Ny, Nx, shear, masked, M(_, _)) ==
    IF masked THEN MaskedArray(Ny + 1, Nx + 1, LAMBDA i, j : 8 * j + 4 * shear * i, M)
    ELSE ndarray(Ny + 1, Nx + 1, LAMBDA i, j : 8 * j + 4 * shear * i)

vert_y(Ny, Nx, masked, M(_, _)) ==
    IF masked THEN MaskedArray(Ny + 1, Nx + 1, LAMBDA i, j : 8 * i, M)
    ELSE ndarray(Ny + 1, Nx + 1, LAMBDA i, j : 8 * i)

\* how a vertex array is given: a plain ndarray, a MaskedArray with nothing
\* masked, or a MaskedArray with vertex (0,0) or (1,1) masked
VertKinds == {"ndarray", "ma", "ma00", "ma11"}

vert_masked(kind) == kind # "ndarray"

vert_mask(kind, i, j) ==
    \/ kind = "ma00" /\ i = 0 /\ j = 0
    \/ kind = "ma11" /\ i = 1 /\ j = 1

\* the mask argument: None, an array on the cells with a 0 and a 2 in it,
\* or an array of ones that has the vertex shape
MaskKinds == {"None", "cells", "verts"}

mask_argument(kind, Ny, Nx) ==
    IF kind = "None" THEN None
    ELSE IF kind = "cells"
         THEN ndarray(Ny, Nx, LAMBDA i, j : IF i = 0 /\ j = 0 THEN 0
                                           ELSE IF i = Ny - 1 /\ j = Nx - 1 THEN 2
                                           ELSE 1)
         ELSE ones(Ny + 1, Nx + 1)

\* where the plain arrays hold NaN: nowhere, x at vertex (0,0), y at vertex
\* (1,1), or both x and y at vertex (1,1)
NanKinds == {"none", "x00", "y11", "xy11"}

x_isnan(kind) ==
    IF kind = "x00" THEN {<<0, 0>>} ELSE IF kind = "xy11" THEN {<<1, 1>>} ELSE {}

y_isnan(kind) == IF kind \in {"y11", "xy11"} THEN {<<1, 1>>} ELSE {}

\* the projection argument
proj_argument(geo) == IF geo THEN [scale |-> 2] ELSE None
\* f is None or the number 1.0
f_argument(kind) == IF kind = "None" THEN None ELSE [float |-> 1]

\* every call of the constructor the model makes
ConstructorArgs ==
    {inp \in [Ny : 1 .. MaxNy, Nx : 1 .. MaxNx, shear : {0, 1},
              xkind : VertKinds, ykind : {"ndarray", "ma11"}, mkind : MaskKinds,
              geo : BOOLEAN, fkind : {"None", "scalar"}, nan : NanKinds] :
        /\ inp.xkind \in {"ma", "ma11"} => inp.ykind = "ndarray"
        /\ inp.geo \/ inp.nan # "none" =>
               inp.xkind = "ndarray" /\ inp.ykind = "ndarray" /\ inp.mkind # "verts"
        /\ ~inp.geo /\ inp.nan = "none" => inp.fkind = "None"}

\* the calls CGrid(x, y, mask=mask) on arrays without NaN
GridInputs ==
    {inp \in ConstructorArgs : ~inp.geo /\ inp.nan = "none"}

\* the arguments of the call inp stands for
CGrid_args(inp) ==
    [x |-> vert_x(inp.Ny, inp.Nx, inp.shear, vert_masked(inp.xkind),
                  LAMBDA i, j : vert_mask(inp.xkind, i, j)),
     y |-> vert_y(inp.Ny, inp.Nx, vert_masked(inp.ykind),
                  LAMBDA i, j : vert_mask(inp.ykind, i, j)),
     x_isnan |-> x_isnan(inp.nan),
     y_isnan |-> y_isnan(inp.nan),
     proj |-> proj_argument(inp.geo),
     mask |-> mask_argument(inp.mkind, inp.Ny, inp.Nx),
     f |-> f_argument(inp.fkind)]

\* the grid's attributes are those g holds
attributes_are(g) ==
    /\ x_vert = g.x_vert
    /\ y_vert = g.y_vert
    /\ lon_vert = g.lon_vert
    /\ lat_vert = g.lat_vert
    /\ mask_rho = g.mask_rho
    /\ x_rho = g.x_rho
    /\ y_rho = g.y_rho
    /\ x_u = g.x_u
    /\ y_u = g.y_u
    /\ x_v = g.x_v
    /\ y_v = g.y_v
    /\ dx = g.dx
    /\ dy = g.dy
    /\ angle_rho = g.angle_rho
    /\ angle = g.angle
    /\ proj = g.proj
    /\ lat_rho = g.lat_rho
    /\ f = g.f

\* the call assigns them
attributes_become(g) ==
    /\ x_vert' = g.x_vert
    /\ y_vert' = g.y_vert
    /\ lon_vert' = g.lon_vert
    /\ lat_vert' = g.lat_vert
    /\ mask_rho' = g.mask_rho
    /\ x_rho' = g.x_rho
    /\ y_rho' = g.y_rho
    /\ x_u' = g.x_u
    /\ y_u' = g.y_u
    /\ x_v' = g.x_v
    /\ y_v' = g.y_v
    /\ dx' = g.dx
    /\ dy' = g.dy
    /\ angle_rho' = g.angle_rho
    /\ angle' = g.angle
    /\ proj' = g.proj
    /\ lat_rho' = g.lat_rho
    /\ f' = g.f

\* a grid constructed by CGrid(x, y, mask=mask)
InitCGrid ==
    \E inp \in GridInputs :
        /\ CGrid_raises(CGrid_args(inp)) = ""
        /\ attributes_are(CGrid_init(CGrid_args(inp)))
        /\ ctor = inp
        /\ mask_arg = CGrid_args(inp).mask
        /\ raised = ""
        /\ polygon = None
        /\ nedits = 0
        /\ no_depths_call
        /\ no_depth_object
        /\ no_tools

(***************************************************************************)
(* Operations on a constructed CGrid.                                      *)
(***************************************************************************)
derived == <<x_rho, y_rho, x_u, y_u, x_v, y_v, dx, dy, angle_rho>>

\* further attributes that __init__ assigns and no method reassigns, and
\* the constructor's arguments
assigned_once == <<angle, proj, lat_rho, f, ctor>>

\* the vertices and the value the model writes in place
PokeSites == {<<0, 0>>, <<1, 1>>}
PokeValues == {20}

\* grd.x_vert[i, j] = val (an in-place write by the caller; it unmasks the entry)
SetXVert(p, val) ==
    /\ x_vert # None
    /\ nedits < MaxEdits
    /\ p \in Idx(x_vert.nr, x_vert.nc)
    /\ x_vert' = [x_vert EXCEPT !.v[p] = val, !.mask[p] = FALSE]
    /\ raised' = ""
    /\ polygon' = None
    /\ nedits' = nedits + 1
    /\ UNCHANGED <<y_vert, lon_vert, lat_vert, mask_rho, mask_arg, derived,
                   assigned_once, depthvars, objvars, toolvars>>

\* grd.y_vert[i, j] = val
SetYVert(p, val) ==
    /\ x_vert # None
    /\ nedits < MaxEdits
    /\ p \in Idx(y_vert.nr, y_vert.nc)
    /\ y_vert' = [y_vert EXCEPT !.v[p] = val, !.mask[p] = FALSE]
    /\ raised' = ""
    /\ polygon' = None
    /\ nedits' = nedits + 1
    /\ UNCHANGED <<x_vert, lon_vert, lat_vert, mask_rho, mask_arg, derived,
                   assigned_once, depthvars, objvars, toolvars>>

\* grd.mask_rho[i, j] = val (an in-place write by the caller)
SetMaskRho(p, val) ==
    /\ x_vert # None
    /\ nedits < MaxEdits
    /\ p \in Idx(mask_rho.nr, mask_rho.nc)
    /\ mask_rho' = [mask_rho EXCEPT !.v[p] = val]
    /\ raised' = ""
    /\ polygon' = None
    /\ nedits' = nedits + 1
    /\ UNCHANGED <<x_vert, y_vert, lon_vert, lat_vert, mask_arg, derived,
                   assigned_once, depthvars, objvars, toolvars>>

\* the polygons the model passes to mask_polygon: a square around the
\* centre of cell (0, 0), a triangle, a square whose left and right edges
\* pass through the centres of cells (0, 0) and (0, 1) of an unsheared
\* grid, and two points (not a polygon)
Polygons ==
    { <<<<0, 0>>, <<8, 0>>, <<8, 8>>, <<0, 8>>>>,
      <<<<0, 0>>, <<40, 0>>, <<0, 40>>>>,
      <<<<4, 0>>, <<12, 0>>, <<12, 8>>, <<4, 8>>>>,
      <<<<0, 0>>, <<8, 8>>>> }

\* x_rho.flat / mask_rho.flat: C order
flat(a, n) == <<n \div a.nc, n % a.nc>>

\* a slip: every cell is given mask_value, whatever the polygon
mask_polygon_fill(polyverts, mask_value) ==
    /\ x_vert # None
    /\ nedits < MaxEdits
    /\ nedits' = nedits + 1
    /\ polygon' = [polyverts |-> polyverts, mask_value |-> mask_value]
    /\ raised' = ""
    /\ mask_rho' = [mask_rho EXCEPT !.v =
                       [q \in Idx(mask_rho.nr, mask_rho.nc) |-> mask_value]]
    /\ UNCHANGED <<x_vert, y_vert, lon_vert, lat_vert, mask_arg, derived,
                   assigned_once, depthvars, objvars, toolvars>>

\* CGrid.mask_polygon(polyverts, mask_value)
mask_polygon(polyverts, mask_value) ==
    LET exc == PolygonGeometry_raises(polyverts)
        verts == close_polygon(polyverts)
        size == x_rho.nr * x_rho.nc
        inside == [n \in 0 .. (size - 1) |->
                      npnpoly(verts, x_rho.v[flat(x_rho, n)], y_rho.v[flat(y_rho, n)])]
        any == \E n \in 0 .. (size - 1) : inside[n]
    IN  /\ x_vert # None
        /\ nedits < MaxEdits
        /\ nedits' = nedits + 1
        /\ polygon' = [polyverts |-> polyverts, mask_value |-> mask_value]
        /\ IF exc # ""
           THEN raised' = exc /\ mask_rho' = mask_rho
           ELSE IF ~any
           THEN raised' = "" /\ mask_rho' = mask_rho
           ELSE IF mask_rho.nr * mask_rho.nc # size
           THEN raised' = "IndexError" /\ mask_rho' = mask_rho
           ELSE /\ raised' = ""
                /\ mask_rho' = [mask_rho EXCEPT !.v =
                       [q \in Idx(mask_rho.nr, mask_rho.nc) |->
                           IF inside[q[1] * mask_rho.nc + q[2]]
                           THEN mask_value ELSE mask_rho.v[q]]]
        /\ UNCHANGED <<x_vert, y_vert, lon_vert, lat_vert, mask_arg, derived,
                   assigned_once, depthvars, objvars, toolvars>>

\* np.arccos(du.real*dv.real + du.imag*dv.imag) for the unit vectors along
\* the differences du = (ux, uy) and dv = (vx, vy): the angle is kept as its
\* cosine, that is the sign of du.dv and the reduced fraction
\* (du.dv)^2 / (|du|^2 |dv|^2); a zero-length difference gives nan
arccos_unit_dot(ux, uy, vx, vy) ==
    LET dot == ux * vx + uy * vy
        den == (ux * ux + uy * uy) * (vx * vx + vy * vy)
    IN  IF den = 0 THEN [nan |-> TRUE]
        ELSE LET g == gcd(dot * dot, den)
             IN  [arccos |-> <<IF dot < 0 THEN -1 ELSE IF dot > 0 THEN 1 ELSE 0,
                               (dot * dot) \div g, den \div g>>]

\* a slip: dv taken along axis 1 as du is
calculate_orthogonality_one_axis(xv, yv) ==
    LET ux == diff1(xv)
        uy == diff1(yv)
        a(r, c) == arccos_unit_dot(ux.v[<<r, c>>], uy.v[<<r, c>>],
                                   ux.v[<<r, c>>], uy.v[<<r, c>>])
    IN  [nr |-> xv.nr - 1, nc |-> xv.nc - 1,
         v |-> [q \in Idx(xv.nr - 1, xv.nc - 1) |->
                  [mean_abs |-> <<a(q[1], q[2]), a(q[1] + 1, q[2]),
                                  a(q[1], q[2]), a(q[1] + 1, q[2])>>,
                   less |-> "pi/2"]]]

\* CGrid.calculate_orthogonality(): per cell the mean of |ang1| .. |ang4|,
\* less pi/2; ang1..ang4 pair the cell's lower and upper edge (du[:-1],
\* du[1:]) with its left and right edge (dv[:,:-1], dv[:,1:])
calculate_orthogonality(xv, yv) ==
    LET ux == diff1(xv)
        uy == diff1(yv)
        vx == diff0(xv)
        vy == diff0(yv)
        a(r, c, k, l) == arccos_unit_dot(ux.v[<<r, c>>], uy.v[<<r, c>>],
                                         vx.v[<<k, l>>], vy.v[<<k, l>>])
    IN  [nr |-> xv.nr - 1, nc |-> xv.nc - 1,
         v |-> [q \in Idx(xv.nr - 1, xv.nc - 1) |->
                  [mean_abs |-> <<a(q[1], q[2], q[1], q[2]),
                                  a(q[1] + 1, q[2], q[1], q[2]),
                                  a(q[1], q[2], q[1], q[2] + 1),
                                  a(q[1] + 1, q[2], q[1], q[2] + 1)>>,
                   less |-> "pi/2"]]]

\* grd.calculate_orthogonality(), computed at each call
orthogonality == calculate_orthogonality(x_vert, y_vert)

\* the mask properties, computed at each read
_get_mask_u_shifted(m) ==
    LET a == Slice(m, 0, 0, 1, 0)
        b == Slice(m, 0, 0, 1, 0)
    IN  ndarray(a.nr, a.nc, LAMBDA i, j : a.v[<<i, j>>] * b.v[<<i, j>>])

_get_mask_u(m) ==
    LET a == Slice(m, 0, 0, 1, 0)
        b == Slice(m, 0, 0, 0, 1)
    IN  ndarray(a.nr, a.nc, LAMBDA i, j : a.v[<<i, j>>] * b.v[<<i, j>>])

_get_mask_v(m) ==
    LET a == Slice(m, 1, 0, 0, 0)
        b == Slice(m, 0, 1, 0, 0)
    IN  ndarray(a.nr, a.nc, LAMBDA i, j : a.v[<<i, j>>] * b.v[<<i, j>>])

_get_mask_psi(m) ==
    LET a == Slice(m, 1, 0, 1, 0)
        b == Slice(m, 0, 1, 1, 0)
        c == Slice(m, 1, 0, 0, 1)
        d == Slice(m, 0, 1, 0, 1)
    IN  ndarray(a.nr, a.nc,
                LAMBDA i, j : a.v[<<i, j>>] * b.v[<<i, j>>] * c.v[<<i, j>>] * d.v[<<i, j>>])

mask_u == _get_mask_u(mask_rho)
mask_v == _get_mask_v(mask_rho)
mask_psi == _get_mask_psi(mask_rho)

NextCGrid ==
    \/ \E p \in PokeSites, val \in PokeValues : SetXVert(p, val)
    \/ \E p \in PokeSites, val \in PokeValues : SetYVert(p, val)
    \/ \E p \in Idx(MaxNy + 1, MaxNx + 1), val \in {0, 1} : SetMaskRho(p, val)
    \/ \E poly \in Polygons, val \in {0, 1} : mask_polygon(poly, val)

SpecCGrid == InitCGrid /\ [][NextCGrid]_vars

(***************************************************************************)
(* The constructor as a step: the call CGrid(x, y, proj, mask, f) is       *)
(* pending in ctor, and CGrid_construct runs __init__ to its return or to  *)
(* the exception it raises.                                                *)
(***************************************************************************)
InitConstruct ==
    /\ ctor \in ConstructorArgs
    /\ x_vert = None /\ y_vert = None /\ lon_vert = None /\ lat_vert = None
    /\ mask_rho = None /\ x_rho = None /\ y_rho = None /\ x_u = None /\ y_u = None
    /\ x_v = None /\ y_v = None /\ dx = None /\ dy = None /\ angle_rho = None
    /\ angle = None /\ proj = None /\ lat_rho = None /\ f = None
    /\ mask_arg = None /\ raised = "" /\ polygon = None /\ nedits = 0
    /\ no_depths_call
    /\ no_depth_object
    /\ no_tools

\* grd = CGrid(x, y, proj=proj, mask=mask, f=f)
CGrid_construct ==
    /\ ctor # None
    /\ x_vert = None
    /\ raised = ""
    /\ UNCHANGED <<ctor, polygon, nedits, depthvars, objvars, toolvars>>
    /\ LET a == CGrid_args(ctor)
           exc == CGrid_raises(a)
       IN  IF exc # ""
           THEN /\ raised' = exc
                /\ UNCHANGED <<x_vert, y_vert, lon_vert, lat_vert, mask_rho, mask_arg,
                               derived, angle, proj, lat_rho, f>>
           ELSE /\ raised' = ""
                /\ attributes_become(CGrid_init(a))
                /\ mask_arg' = a.mask

NextConstruct == CGrid_construct \/ NextCGrid

SpecConstruct == InitConstruct /\ [][NextConstruct]_vars

\* 2 * 7.29e-5 * sin(latitude), entry by entry
Coriolis_sin(lat) ==
    [lat EXCEPT !.v = [q \in Idx(lat.nr, lat.nc) |-> <<2 * Omega, sin_deg(lat.v[q])>>]]

\* C18: when a CGrid is constructed with a projection and without an f
\* argument, its f equals 2 * 7.29e-5 * sin(lat_rho) at every rho point.
C18_CoriolisIsSine ==
    [][(CGrid_construct /\ x_vert' # None /\ proj' # None /\ CGrid_args(ctor).f = None)
          => /\ shape(f') = shape(lat_rho')
             /\ \A q \in Idx(lat_rho'.nr, lat_rho'.nc) :
                    f'.v[q] = Coriolis_sin(lat_rho').v[q]]_vars

\* the vertices at which the x or the y passed to the constructor is NaN
nan_vertices(a) == a.x_isnan \cup a.y_isnan

\* the rho cells that have vertex p as a corner
cells_at(p, m) == {q \in Idx(m.nr, m.nc) : q[1] \in {p[1] - 1, p[1]} /\ q[2] \in {p[2] - 1, p[2]}}

\* C19: constructing a CGrid from plain arrays in which some vertex is NaN
\* in x or in y succeeds; that vertex is masked in both x_vert and y_vert,
\* and every rho cell with that vertex as a corner has mask_rho = 0.
C19_NaNVerticesMasked ==
    [][(CGrid_construct /\ nan_vertices(CGrid_args(ctor)) # {})
          => /\ raised' = ""
             /\ x_vert' # None
             /\ \A p \in nan_vertices(CGrid_args(ctor)) :
                    /\ isMasked(x_vert') /\ x_vert'.mask[p]
                    /\ isMasked(y_vert') /\ y_vert'.mask[p]
                    /\ \A q \in cells_at(p, mask_rho') : mask_rho'.v[q] = 0]_vars

(***************************************************************************)
(* Claims about CGrid, checked under SpecCGrid.                            *)
(***************************************************************************)
Ny == x_vert.nr - 1
Nx == x_vert.nc - 1

\* C1: every read of a derived quantity (x_rho, y_rho, x_u, y_u, x_v, y_v,
\* dx, dy, angle_rho) equals the value computed from the current vertex
\* arrays, whatever in-place changes were made to x_vert and y_vert.
C1_DerivedNeverStale ==
    LET sub == _calculate_subgrids(x_vert, y_vert)
        met == _calculate_metrics(x_vert, y_vert)
    IN  /\ x_rho = sub.x_rho /\ y_rho = sub.y_rho
        /\ x_u = sub.x_u /\ y_u = sub.y_u
        /\ x_v = sub.x_v /\ y_v = sub.y_v
        /\ dx = met.dx /\ dy = met.dy
        /\ angle_rho = met.angle_rho

\* C2: at every read, mask_u[i,j] = mask_rho[i,j] * mask_rho[i,j+1],
\* mask_v[i,j] = mask_rho[i,j] * mask_rho[i+1,j] and mask_psi[i,j] is the
\* product of mask_rho at (i,j), (i,j+1), (i+1,j), (i+1,j+1), for all valid
\* i, j, after any mask_polygon calls and in-place writes to mask_rho.
C2_EdgeMasksAreProducts ==
    LET R == mask_rho.nr
        C == mask_rho.nc
        m == mask_rho.v
    IN  /\ shape(mask_u) = <<R, Max0(C - 1)>>
        /\ shape(mask_v) = <<Max0(R - 1), C>>
        /\ shape(mask_psi) = <<Max0(R - 1), Max0(C - 1)>>
        /\ \A i \in 0 .. (R - 1), j \in 0 .. (C - 2) :
              mask_u.v[<<i, j>>] = m[<<i, j>>] * m[<<i, j + 1>>]
        /\ \A i \in 0 .. (R - 2), j \in 0 .. (C - 1) :
              mask_v.v[<<i, j>>] = m[<<i, j>>] * m[<<i + 1, j>>]
        /\ \A i \in 0 .. (R - 2), j \in 0 .. (C - 2) :
              mask_psi.v[<<i, j>>] = m[<<i, j>>] * m[<<i, j + 1>>]
                                     * m[<<i + 1, j>>] * m[<<i + 1, j + 1>>]

\* C2 witness: after an in-place write to mask_rho and a mask_polygon call, a
\* mask with a land cell beside a water cell: mask_u holds both a 0 and a 1.
C2_Witness ==
    /\ nedits >= 2 /\ raised # ""
    /\ \E p \in DOMAIN mask_u.v : mask_u.v[p] = 0
    /\ \E p \in DOMAIN mask_u.v : mask_u.v[p] = 1
    /\ \E p \in DOMAIN mask_v.v : mask_v.v[p] = 0
    /\ \E p \in DOMAIN mask_psi.v : mask_psi.v[p] = 0
    /\ \E p \in DOMAIN mask_rho.v : mask_rho.v[p] = 1

\* C5: for vertex arrays of shape (Ny+1, Nx+1) with Ny, Nx >= 2, construction
\* yields x_rho/y_rho of shape (Ny, Nx), x_u/y_u of shape (Ny, Nx-1), x_v/y_v
\* of shape (Ny-1, Nx) and x_psi/y_psi of shape (Ny-1, Nx-1).
C5_SubgridShapes ==
    (Ny >= 2 /\ Nx >= 2) =>
        /\ shape(x_rho) = <<Ny, Nx>> /\ shape(y_rho) = <<Ny, Nx>>
        /\ shape(x_u) = <<Ny, Nx - 1>> /\ shape(y_u) = <<Ny, Nx - 1>>
        /\ shape(x_v) = <<Ny - 1, Nx>> /\ shape(y_v) = <<Ny - 1, Nx>>
        /\ shape(x_psi) = <<Ny - 1, Nx - 1>> /\ shape(y_psi) = <<Ny - 1, Nx - 1>>

\* C5 witness: a freshly constructed grid with Ny = 2 and Nx = 3, whose u and
\* v shapes differ.
C5_Witness ==
    /\ nedits = 0 /\ Ny = 2 /\ Nx = 3
    /\ shape(x_u) = <<2, 2>> /\ shape(x_v) = <<1, 3>>

\* the mean of the vertex entries at the index pairs ps equals val
\* (stated without division: the sum is val times the number of entries)
IsMeanOf(val, vert, ps) ==
    LET a == ps[1]
        b == ps[2]
    IN  IF Len(ps) = 2
        THEN 2 * val = vert.v[a] + vert.v[b]
        ELSE 4 * val = vert.v[a] + vert.v[b] + vert.v[ps[3]] + vert.v[ps[4]]

NoneMasked(vert, ps) == \A k \in 1 .. Len(ps) : ~vert.mask[ps[k]]

SubgridMeans(rho, u, v, psi, vert) ==
    /\ \A i \in 0 .. (Ny - 1), j \in 0 .. (Nx - 1) :
          LET ps == <<<<i, j>>, <<i, j + 1>>, <<i + 1, j>>, <<i + 1, j + 1>>>>
          IN  /\ <<i, j>> \in DOMAIN rho.v
              /\ NoneMasked(vert, ps) =>
                    ~rho.mask[<<i, j>>] /\ IsMeanOf(rho.v[<<i, j>>], vert, ps)
    /\ \A i \in 0 .. (Ny - 1), j \in 0 .. (Nx - 2) :
          LET ps == <<<<i, j + 1>>, <<i + 1, j + 1>>>>
          IN  /\ <<i, j>> \in DOMAIN u.v
              /\ NoneMasked(vert, ps) =>
                    ~u.mask[<<i, j>>] /\ IsMeanOf(u.v[<<i, j>>], vert, ps)
    /\ \A i \in 0 .. (Ny - 2), j \in 0 .. (Nx - 1) :
          LET ps == <<<<i + 1, j>>, <<i + 1, j + 1>>>>
          IN  /\ <<i, j>> \in DOMAIN v.v
              /\ NoneMasked(vert, ps) =>
                    ~v.mask[<<i, j>>] /\ IsMeanOf(v.v[<<i, j>>], vert, ps)
    /\ \A i \in 0 .. (Ny - 2), j \in 0 .. (Nx - 2) :
          /\ <<i, j>> \in DOMAIN psi.v
          /\ psi.v[<<i, j>>] = vert.v[<<i + 1, j + 1>>]
          /\ psi.mask[<<i, j>>] = vert.mask[<<i + 1, j + 1>>]

\* C6: construction sets rho[i,j] to the mean of vertices [i,j], [i,j+1],
\* [i+1,j], [i+1,j+1]; u[i,j] to the mean of vertices [i,j+1], [i+1,j+1];
\* v[i,j] to the mean of vertices [i+1,j], [i+1,j+1]; psi[i,j] to vertex
\* [i+1,j+1], in x and in y (entries with a masked vertex are masked).
C6_SubgridAverages ==
    nedits = 0 =>
        /\ SubgridMeans(x_rho, x_u, x_v, x_psi, x_vert)
        /\ SubgridMeans(y_rho, y_u, y_v, y_psi, y_vert)

\* C6 witness: a freshly constructed sheared grid that has u, v and psi
\* points, with a u point whose x differs from that of its left neighbour
\* vertex column (so the column offset of u is visible).
C6_Witness ==
    /\ nedits = 0 /\ Ny >= 2 /\ Nx >= 3
    /\ ~x_vert.masked /\ ~y_vert.masked
    /\ x_vert.v[<<1, 0>>] # x_vert.v[<<0, 0>>]
    /\ x_u.v[<<0, 1>>] # x_u.v[<<0, 0>>]
    /\ y_v.v[<<0, 0>>] # y_rho.v[<<0, 0>>]

\* a corner of cell (i, j) is masked in x or y (lon_vert, lat_vert are None
\* on a Cartesian grid)
AnyCornerMasked(i, j) ==
    \E p \in {<<i, j>>, <<i, j + 1>>, <<i + 1, j>>, <<i + 1, j + 1>>} :
        \/ x_vert.masked /\ x_vert.mask[p]
        \/ y_vert.masked /\ y_vert.mask[p]
        \/ isMasked(lon_vert) /\ lon_vert.mask[p]
        \/ isMasked(lat_vert) /\ lat_vert.mask[p]

SuppliedMask(i, j) == IF mask_arg = None THEN 1 ELSE mask_arg.v[<<i, j>>]

C8_MaskShape ==
    /\ shape(mask_rho) = shape(x_rho)
    /\ shape(mask_rho) = <<x_vert.nr - 1, x_vert.nc - 1>>

\* the point (x, y) lies on the segment from a to b
on_segment(a, b, x, y) ==
    /\ (b[1] - a[1]) * (y - a[2]) = (x - a[1]) * (b[2] - a[2])
    /\ (a[1] <= x /\ x <= b[1]) \/ (b[1] <= x /\ x <= a[1])
    /\ (a[2] <= y /\ y <= b[2]) \/ (b[2] <= y /\ y <= a[2])

\* the contribution of the edge from a to b to the winding number about (x, y)
winding(a, b, x, y) ==
    LET left == (b[1] - a[1]) * (y - a[2]) - (x - a[1]) * (b[2] - a[2])
    IN  IF a[2] <= y /\ y < b[2] /\ left > 0 THEN 1
        ELSE IF b[2] <= y /\ y < a[2] /\ left < 0 THEN -1
        ELSE 0

RECURSIVE winding_number(_, _, _, _)
winding_number(verts, i, x, y) ==
    IF i > Len(verts) THEN 0
    ELSE winding(verts[i], verts[(i % Len(verts)) + 1], x, y)
         + winding_number(verts, i + 1, x, y)

\* (x, y) is in the interior of the polygon and not on its boundary
strictly_inside(verts, x, y) ==
    /\ \A i \in 1 .. Len(verts) :
          ~on_segment(verts[i], verts[(i % Len(verts)) + 1], x, y)
    /\ winding_number(verts, 1, x, y) # 0

centre_inside(verts, q) == strictly_inside(verts, x_rho.v[q], y_rho.v[q])

\* C16: for every simple polygon, inside() is true of a point exactly when
\* the point lies strictly inside the polygon (not on an edge, not at a
\* vertex), so that a mask_polygon call returns and sets to the mask value
\* exactly the cells whose centre is strictly inside.
C16_InsideIsStrictInterior ==
    [][\A poly \in Polygons, val \in {0, 1} :
          (mask_polygon(poly, val) /\ Len(poly) >= 3 /\ shape(mask_rho) = shape(x_rho))
             => /\ raised' = ""
                /\ \A q \in Idx(mask_rho.nr, mask_rho.nc) :
                      mask_rho'.v[q] = IF centre_inside(poly, q) THEN val
                                       ELSE mask_rho.v[q]]_vars

\* the centre of cell q is inside the polygon by the library's own test
centre_deemed_inside(verts, q) ==
    npnpoly(close_polygon(verts), x_rho.v[q], y_rho.v[q])

\* C17: a mask_polygon call repeated with the same polygon and value returns
\* and leaves mask_rho as the first call left it, and a call with a value
\* that every cell inside the polygon already has returns and leaves
\* mask_rho unchanged.
C17_MaskPolygonIdempotent ==
    [][\A poly \in Polygons, val \in {0, 1} :
          (mask_polygon(poly, val) /\ Len(poly) >= 3 /\ shape(mask_rho) = shape(x_rho))
             => /\ polygon = [polyverts |-> poly, mask_value |-> val]
                   => (raised = "" /\ raised' = "" /\ mask_rho' = mask_rho)
                /\ (\A q \in Idx(mask_rho.nr, mask_rho.nc) :
                       centre_deemed_inside(poly, q) => mask_rho.v[q] = val)
                   => (raised' = "" /\ mask_rho' = mask_rho)]_vars

\* entry q of mask_rho is one whose rho centre the polygon's inside() reports:
\* mask_rho.flat and x_rho.flat are paired by their flat position
reported_inside(verts, q) ==
    LET n == q[1] * mask_rho.nc + q[2]
    IN  /\ Len(verts) >= 3
        /\ n < x_rho.nr * x_rho.nc
        /\ centre_deemed_inside(verts, flat(x_rho, n))

Sign(n) == IF n < 0 THEN -1 ELSE IF n > 0 THEN 1 ELSE 0

NotFinite == <<0, 0>>

Q(n, d) ==
    IF d = 0 THEN NotFinite
    ELSE LET g == gcd(Abs(n), Abs(d))
         IN  <<(Sign(d) * n) \div g, Abs(d) \div g>>

Z(n) == <<n, 1>>

isfinite(a) == a[2] # 0

radd(a, b) ==
    IF ~isfinite(a) \/ ~isfinite(b) THEN NotFinite
    ELSE LET g == gcd(a[2], b[2])
         IN  Q(a[1] * (b[2] \div g) + b[1] * (a[2] \div g), (a[2] \div g) * b[2])

rneg(a) == <<-a[1], a[2]>>

rsub(a, b) == radd(a, rneg(b))

rmul(a, b) ==
    IF ~isfinite(a) \/ ~isfinite(b) THEN NotFinite
    ELSE LET g1 == gcd(Abs(a[1]), b[2])
             g2 == gcd(Abs(b[1]), a[2])
         IN  Q((a[1] \div g1) * (b[1] \div g2), (a[2] \div g2) * (b[2] \div g1))

rdiv(a, b) ==
    IF ~isfinite(a) \/ ~isfinite(b) THEN NotFinite
    ELSE IF b[1] = 0 THEN NotFinite
    ELSE rmul(a, <<Sign(b[1]) * b[2], Abs(b[1])>>)

\* comparisons with a non-finite operand are False, as for nan
rle(a, b) == isfinite(a) /\ isfinite(b) /\ a[1] * b[2] <= b[1] * a[2]
rlt(a, b) == isfinite(a) /\ isfinite(b) /\ a[1] * b[2] < b[1] * a[2]

rabs(a) == <<Abs(a[1]), a[2]>>

RECURSIVE ipow(_, _)
ipow(b, n) == IF n = 0 THEN 1 ELSE b * ipow(b, n - 1)

Rat(q) == [q |-> q, E |-> 1]
Ln4(E) == [q |-> Z(0), E |-> E]

\* floor(exp(n/4)) for the integer range limits the code compares theta with
floor_exp_quarter(n) ==
    CASE n = 0 -> 1 [] n = 1 -> 1 [] n = 3 -> 2 [] n = 8 -> 7 [] n = 10 -> 12

\* 0 < theta, 0 <= theta, theta <= n for the thetas the model draws
\* (q = 0 whenever E > 1)
theta_pos(th) == IF th.E = 1 THEN rlt(Z(0), th.q) ELSE TRUE
theta_nonneg(th) == IF th.E = 1 THEN rle(Z(0), th.q) ELSE TRUE
theta_le(th, n) == IF th.E = 1 THEN rle(th.q, Z(n)) ELSE th.E <= floor_exp_quarter(n)

\* np.exp(theta * r): exact when theta*r = 4*k*ln(E)/4 for an integer k = 4r
exp(th, r) ==
    IF ~isfinite(r) THEN NotFinite
    ELSE IF r[1] = 0 \/ (th.E = 1 /\ th.q[1] = 0) THEN Z(1)
    ELSE CASE th.E > 1 /\ (4 * r[1]) % r[2] = 0 ->
              LET k == (4 * r[1]) \div r[2]
              IN  IF k >= 0 THEN Z(ipow(th.E, k)) ELSE Q(1, ipow(th.E, -k))

sinh(th, r) == rdiv(rsub(exp(th, r), exp(th, rneg(r))), Z(2))

\* np.cosh(k/4) in hundredths, rounded, for k = 1, ..., 20
cosh_quarters(k) ==
    <<103, 113, 130, 154, 189, 235, 296, 376, 480, 613, 785, 1007, 1292,
      1657, 2127, 2731, 3506, 4501, 5780, 7421>>[k]

\* np.cosh(theta * r); for theta = 5.0 and r a multiple of 1/20 the value
\* is taken from the table above
cosh(th, r) ==
    IF th = Rat(Z(5)) /\ isfinite(r)
    THEN LET k == Abs(20 * r[1]) \div r[2]
         IN  IF k = 0 THEN Z(1) ELSE Q(cosh_quarters(k), 100)
    ELSE rdiv(radd(exp(th, r), exp(th, rneg(r))), Z(2))
tanh(th, r) == rdiv(sinh(th, r), cosh(th, r))

\* x ** theta for a rational x >= 0 and a theta that is an integer n >= 0
\* (numpy: 0.0 ** 0.0 = 1.0)
power(x, th) ==
    LET n == th.q[1] IN Q(ipow(x[1], n), ipow(x[2], n))

Hscale == 3

\* np.tanh(1.5) = 0.905..., to three places
tanh_1_5 == Q(181, 200)

\* np.tanh(Hscale * x) at the arguments x = 0, 1/2, -1/2
tanh_Hscale(x) ==
    IF x = Z(0) THEN Z(0)
    ELSE IF x = Q(1, 2) THEN tanh_1_5
    ELSE rneg(tanh_1_5)

\* np.log(np.cosh(Hscale * x)) / np.log(np.cosh(Hscale)) at x = 0 and x = 1
logcosh_ratio(x) == IF x = Z(0) THEN Z(0) ELSE Z(1)

(***************************************************************************)
(* octant/depths.py: Vstretching.  get_Vstretching_k(theta_s, theta_b, s)  *)
(* is C(s) of the curve the constructor returns; get_Vstretching_k_ok      *)
(* says its assertions pass.                                               *)
(***************************************************************************)
\* the assertion of check_s_limits, for one s
check_s_limits(s) == rle(Z(-1), s) /\ rle(s, Z(0))

get_Vstretching_1_ok(theta_s, theta_b) ==
    /\ theta_pos(theta_s) /\ theta_le(theta_s, 8)
    /\ theta_nonneg(theta_b) /\ theta_le(theta_b, 1)

get_Vstretching_1(theta_s, theta_b, s) ==
    LET a == theta_s
        b == theta_b.q
    IN  radd(rmul(rsub(Z(1), b), rdiv(sinh(a, s), sinh(a, Z(1)))),
             rmul(b, radd(Q(-1, 2),
                          rdiv(rmul(Q(1, 2), tanh(a, radd(s, Q(1, 2)))),
                               tanh(a, Q(1, 2))))))

get_Vstretching_2_ok(theta_s, theta_b) == TRUE

get_Vstretching_2(theta_s, theta_b, s) ==
    rdiv(rsub(Z(1), cosh(theta_s, s)), rsub(cosh(theta_s, Z(1)), Z(1)))

get_Vstretching_3_ok(theta_s, theta_b) ==
    theta_pos(theta_s) /\ theta_nonneg(theta_b)

get_Vstretching_3(theta_s, theta_b, s) ==
    LET exp_sur == theta_s
        exp_bot == theta_b
        Cbot == rsub(logcosh_ratio(power(radd(s, Z(1)), exp_bot)), Z(1))
        Csur == rneg(logcosh_ratio(power(rabs(s), exp_sur)))
        Cweight == rmul(Q(1, 2), rsub(Z(1), tanh_Hscale(radd(s, Q(1, 2)))))
    IN  radd(rmul(Cweight, Cbot), rmul(rsub(Z(1), Cweight), Csur))

get_Vstretching_4_ok(theta_s, theta_b) ==
    /\ theta_pos(theta_s) /\ theta_le(theta_s, 10)
    /\ theta_nonneg(theta_b) /\ theta_le(theta_b, 3)

get_Vstretching_4(theta_s, theta_b, s) ==
    LET C == rdiv(rsub(Z(1), cosh(theta_s, s)), rsub(cosh(theta_s, Z(1)), Z(1)))
    IN  IF theta_pos(theta_b)
        THEN rdiv(rsub(exp(theta_b, C), Z(1)),
                  rsub(Z(1), exp(theta_b, Z(-1))))
        ELSE rneg(C)

\* get_Vstretching: "" or the exception the call ends with
get_Vstretching_raises(Vstretching, theta_s, theta_b) ==
    CASE Vstretching = 1 ->
            IF get_Vstretching_1_ok(theta_s, theta_b) THEN "" ELSE "AssertionError"
      [] Vstretching = 2 ->
            IF get_Vstretching_2_ok(theta_s, theta_b) THEN "" ELSE "AssertionError"
      [] Vstretching = 3 ->
            IF get_Vstretching_3_ok(theta_s, theta_b) THEN "" ELSE "AssertionError"
      [] Vstretching = 4 ->
            IF get_Vstretching_4_ok(theta_s, theta_b) THEN "" ELSE "AssertionError"
      [] OTHER -> "Exception"

\* the message of the exception: that of the first assertion that fails
get_Vstretching_message(Vstretching, theta_s, theta_b) ==
    CASE Vstretching = 1 ->
            IF ~(theta_pos(theta_s) /\ theta_le(theta_s, 8))
            THEN "theta_s not in valid range for Vstretching == 1"
            ELSE IF ~(theta_nonneg(theta_b) /\ theta_le(theta_b, 1))
            THEN "theta_b not in valid range for Vstretching == 1"
            ELSE ""
      [] Vstretching = 2 -> ""
      [] Vstretching = 3 ->
            IF ~theta_pos(theta_s)
            THEN "theta_s must be positive for Vstretching == 3"
            ELSE IF ~theta_nonneg(theta_b)
            THEN "theta_b must be positive for Vstretching == 3"
            ELSE ""
      [] Vstretching = 4 ->
            IF ~(theta_pos(theta_s) /\ theta_le(theta_s, 10))
            THEN "theta_s not in valid range for Vstretching == 4"
            ELSE IF ~(theta_nonneg(theta_b) /\ theta_le(theta_b, 3))
            THEN "theta_s not in valid range for Vstretching == 4"
            ELSE ""
      [] OTHER -> "Vstretching must be 1, 2, 3, or 4"

\* C(s) of the curve get_Vstretching returns
get_Vstretching(Vstretching, theta_s, theta_b, s) ==
    CASE Vstretching = 1 -> get_Vstretching_1(theta_s, theta_b, s)
      [] Vstretching = 2 -> get_Vstretching_2(theta_s, theta_b, s)
      [] Vstretching = 3 -> get_Vstretching_3(theta_s, theta_b, s)
      [] Vstretching = 4 -> get_Vstretching_4(theta_s, theta_b, s)

(***************************************************************************)
(* N-d numpy arrays of floats, for the depth code: shape is a tuple and at *)
(* maps each 0-based index tuple to a float.  A scalar has shape <<>>.     *)
(***************************************************************************)
RECURSIVE Indices(_)
Indices(shp) ==
    IF shp = <<>> THEN {<<>>}
    ELSE {<<i>> \o rest : i \in 0 .. (shp[1] - 1), rest \in Indices(Tail(shp))}

\* (f @@ <<>> is f, held as an explicit table of values)
nd(shp, F(_)) == [shape |-> shp, at |-> [ix \in Indices(shp) |-> F(ix)] @@ <<>>]

scalar(x) == nd(<<>>, LAMBDA ix : x)

ndim(a) == Len(a.shape)

\* a 1-D array from a sequence of floats
array1(seq) == nd(<<Len(seq)>>, LAMBDA ix : seq[ix[1] + 1])

\* numpy broadcasting: shapes are aligned at their last axis
padded(shp, n) == [k \in 1 .. n |->
                      IF k <= n - Len(shp) THEN 1 ELSE shp[k - (n - Len(shp))]]

maxlen(s1, s2) == IF Len(s1) >= Len(s2) THEN Len(s1) ELSE Len(s2)

broadcast_ok(s1, s2) ==
    LET n == maxlen(s1, s2)
    IN  \A k \in 1 .. n : bdim(padded(s1, n)[k], padded(s2, n)[k]) >= 0

broadcast_shape(s1, s2) ==
    LET n == maxlen(s1, s2)
    IN  [k \in 1 .. n |-> bdim(padded(s1, n)[k], padded(s2, n)[k])]

\* the index into an array of shape shp for index ix of the broadcast result
bindex(shp, ix) ==
    LET off == Len(ix) - Len(shp)
    IN  [k \in 1 .. Len(shp) |-> IF shp[k] = 1 THEN 0 ELSE ix[k + off]]

\* elementwise Op(a, b) with broadcasting
binop(Op(_, _), a, b) ==
    nd(broadcast_shape(a.shape, b.shape),
       LAMBDA ix : Op(a.at[bindex(a.shape, ix)], b.at[bindex(b.shape, ix)]))

add(a, b) == binop(radd, a, b)
sub(a, b) == binop(rsub, a, b)
mul(a, b) == binop(rmul, a, b)
div(a, b) == binop(rdiv, a, b)

\* s[:, np.newaxis] (k = 1) and s[:, np.newaxis, np.newaxis] (k = 2)
newaxes(a, k) ==
    nd(a.shape \o [j \in 1 .. k |-> 1], LAMBDA ix : a.at[SubSeq(ix, 1, Len(a.shape))])

\* np.min(h) <= x fails iff some entry is below x
all_ge(h, x) == \A ix \in Indices(h.shape) : rle(x, h.at[ix])

(***************************************************************************)
(* octant/depths.py: s-coordinate arrays.                                  *)
(***************************************************************************)
\* np.linspace(-1.0, 0.0, n)
linspace_m1_0(n) ==
    [k \in 1 .. n |-> IF n = 1 THEN Z(-1) ELSE radd(Z(-1), Q(k - 1, n - 1))]

get_sw(N) == array1(linspace_m1_0(N))

\* a slip: the midpoints are taken of N levels
get_srho_of_N_levels(N) ==
    LET sr == linspace_m1_0(N)
    IN  array1([k \in 1 .. (N - 1) |-> rmul(Q(1, 2), radd(sr[k + 1], sr[k]))])

get_srho(N) ==
    LET sr == linspace_m1_0(N + 1)
    IN  array1([k \in 1 .. N |-> rmul(Q(1, 2), radd(sr[k + 1], sr[k]))])

get_s(grid, N) == IF grid = "w" THEN get_sw(N) ELSE get_srho(N)

(***************************************************************************)
(* octant/depths.py: Vtransform and depths.  The curve C is given by the   *)
(* arguments cv = [Vstretching, theta_s, theta_b] of get_Vstretching.      *)
(***************************************************************************)
C_of(cv, s) ==
    nd(s.shape, LAMBDA ix : get_Vstretching(cv.Vstretching, cv.theta_s, cv.theta_b,
                                            s.at[ix]))

\* the assertion of check_s_limits: np.alltrue((s >= -1.0) & (s <= 0.0))
s_limits_ok(s) == \A ix \in Indices(s.shape) : check_s_limits(s.at[ix])

\* s as Zo reshapes it for h
s_for(h, s) ==
    IF ndim(h) = 1 THEN newaxes(s, 1)
    ELSE IF ndim(h) = 2 THEN newaxes(s, 2)
    ELSE s

\* Zo(s) of get_Vtransform_1: hc * (s - C(s)) + C(s) * h
get_Vtransform_1(cv, h, hc, s) ==
    LET s2 == s_for(h, s)
        Cs == C_of(cv, s2)
    IN  add(mul(scalar(hc), sub(s2, Cs)), mul(Cs, h))

\* Zo(s) of get_Vtransform_2: (hc * s + C(s) * h) / (hc + h)
get_Vtransform_2(cv, h, hc, s) ==
    LET s2 == s_for(h, s)
        Cs == C_of(cv, s2)
    IN  div(add(mul(scalar(hc), s2), mul(Cs, h)), add(scalar(hc), h))

\* the exception depths(s, zeta) ends with, "" if none
depths_raises(Vtransform, cv, h, hc, s, zeta) ==
    IF Vtransform = 1 /\ ~all_ge(h, hc) THEN "AssertionError"
    ELSE IF ~s_limits_ok(s) THEN "AssertionError"
    ELSE IF ~broadcast_ok(broadcast_shape(s_for(h, s).shape, h.shape), zeta.shape)
         THEN "ValueError"
    ELSE ""

\* a slip: the free surface left out of the stretched column
get_depths_no_zeta_in_column(Vtransform, cv, h, hc, s, zeta) ==
    IF Vtransform = 1
    THEN LET Zo == get_Vtransform_1(cv, h, hc, s)
         IN  add(Zo, mul(zeta, div(Zo, h)))
    ELSE LET Zo == get_Vtransform_2(cv, h, hc, s)
         IN  add(zeta, mul(h, Zo))

\* depths(s, zeta) of the function get_depths(Vtransform, C, h, hc) returns
get_depths(Vtransform, cv, h, hc, s, zeta) ==
    IF Vtransform = 1
    THEN LET Zo == get_Vtransform_1(cv, h, hc, s)
         IN  add(Zo, mul(zeta, add(scalar(Z(1)), div(Zo, h))))
    ELSE LET Zo == get_Vtransform_2(cv, h, hc, s)
         IN  add(zeta, mul(add(zeta, h), Zo))

(***************************************************************************)
(* Indexing of N-d arrays.  An index is a tuple of items, each an integer  *)
(* I(n) or the full slice All (":").  An operation that can fail returns   *)
(* either an array or [exception |-> name].                                *)
(***************************************************************************)
I(n) == [int |-> n, all |-> FALSE]
All == [int |-> 0, all |-> TRUE]

fails(x) == "exception" \in DOMAIN x

IndexError == [exception |-> "IndexError"]
ValueError == [exception |-> "ValueError"]

\* the items of a key, padded with ":" to n items
pad_key(items, n) == [d \in 1 .. n |-> IF d <= Len(items) THEN items[d] ELSE All]

\* the axes of shp that pass the test, as a sequence, and the rank of an
\* axis among them
RECURSIVE axes_where(_, _, _)
axes_where(n, keep(_), d) ==
    IF d > n THEN <<>>
    ELSE (IF keep(d) THEN <<d>> ELSE <<>>) \o axes_where(n, keep, d + 1)

rank(kept, d) == CHOOSE m \in 1 .. Len(kept) : kept[m] = d

\* a[items] for integer and full-slice items
getitem(a, items) ==
    IF Len(items) > ndim(a) THEN IndexError
    ELSE LET n == ndim(a)
             full == pad_key(items, n)
             inrange(d) == full[d].all
                           \/ (-a.shape[d] <= full[d].int /\ full[d].int < a.shape[d])
             kept == axes_where(n, LAMBDA d : full[d].all, 1)
             at(d) == IF full[d].int < 0 THEN full[d].int + a.shape[d] ELSE full[d].int
         IN  IF \E d \in 1 .. n : ~inrange(d) THEN IndexError
             ELSE nd([m \in 1 .. Len(kept) |-> a.shape[kept[m]]],
                     LAMBDA ix : a.at[[d \in 1 .. n |->
                                         IF full[d].all THEN ix[rank(kept, d)] ELSE at(d)]])

\* np.squeeze(a): the axes of length 1 are dropped
squeeze(a) ==
    LET n == ndim(a)
        kept == axes_where(n, LAMBDA d : a.shape[d] # 1, 1)
    IN  nd([m \in 1 .. Len(kept) |-> a.shape[kept[m]]],
           LAMBDA ix : a.at[[d \in 1 .. n |->
                               IF a.shape[d] # 1 THEN ix[rank(kept, d)] ELSE 0]])

\* a with a new axis of length 1 as axis p (1-based): a[np.newaxis, :] is
\* p = 1 and a[:, np.newaxis, ...] is p = 2
newaxis(a, p) ==
    LET n == ndim(a)
    IN  nd([d \in 1 .. (n + 1) |-> IF d < p THEN a.shape[d]
                                   ELSE IF d = p THEN 1 ELSE a.shape[d - 1]],
           LAMBDA ix : a.at[[d \in 1 .. n |-> IF d < p THEN ix[d] ELSE ix[d + 1]]])

(***************************************************************************)
(* One call of get_zw or get_zrho, in the steps the wrapper takes.         *)
(***************************************************************************)
MaxN == 4

\* arguments below and above the ranges the assertions test: theta_s = 0,
\* theta_s = 4 ln 8 > 8, theta_s = 4 ln 13 > 10, theta_b = -1, theta_b = 4
RejectedStretchArgs ==
    [Vstretching : {1}, theta_s : {Rat(Z(0)), Ln4(8)}, theta_b : {Rat(Z(0))}]
    \cup [Vstretching : {1}, theta_s : {Ln4(2)}, theta_b : {Rat(Z(-1))}]
    \cup [Vstretching : {3}, theta_s : {Rat(Z(0)), Rat(Z(-1))}, theta_b : {Rat(Z(1))}]
    \cup [Vstretching : {3}, theta_s : {Rat(Z(1))}, theta_b : {Rat(Z(-1))}]
    \cup [Vstretching : {4}, theta_s : {Rat(Z(0)), Ln4(13)}, theta_b : {Rat(Z(0))}]
    \cup [Vstretching : {4}, theta_s : {Ln4(2)}, theta_b : {Rat(Z(-1)), Rat(Z(4))}]

\* the stretching arguments the model draws; the first four lines are
\* accepted by the constructors, the next two are rejected, and so are
\* those of RejectedStretchArgs
StretchArgs ==
    [Vstretching : {1}, theta_s : {Ln4(2), Ln4(3)},
     theta_b : {Rat(Z(0)), Rat(Q(1, 2)), Rat(Z(1))}]
    \cup [Vstretching : {2}, theta_s : {Rat(Z(0)), Ln4(2)}, theta_b : {Rat(Z(0))}]
    \cup [Vstretching : {3}, theta_s : {Rat(Z(1)), Rat(Z(2))},
          theta_b : {Rat(Z(0)), Rat(Z(1)), Rat(Z(2))}]
    \cup [Vstretching : {4}, theta_s : {Ln4(2), Ln4(3)}, theta_b : {Rat(Z(0)), Ln4(2)}]
    \cup [Vstretching : {1}, theta_s : {Ln4(2)}, theta_b : {Rat(Z(2))}]
    \cup [Vstretching : {5}, theta_s : {Ln4(2)}, theta_b : {Rat(Z(0))}]
    \cup RejectedStretchArgs

\* bathymetries h > 0: a scalar, a 1-D and a 2-D array
Bathymetries ==
    { scalar(Z(10)),
      array1(<<Z(10), Z(40)>>),
      nd(<<1, 2>>, LAMBDA ix : IF ix[2] = 0 THEN Z(10) ELSE Z(40)) }

CriticalDepths == {Z(-10), Z(-5), Z(0), Z(5), Z(20)}

\* free surfaces for h: the default 0, a scalar, an array shaped like h
FreeSurfaces(h) ==
    { scalar(Z(0)), scalar(Q(1, 2)),
      nd(h.shape, LAMBDA ix : IF ix = <<>> \/ ix[Len(ix)] = 0 THEN Z(1) ELSE Z(-2)) }

\* the exact arithmetic covers s-levels that are multiples of 1/4; the
\* curves of kind 3, and of kind 4 with theta_b > 0, only s = -1 and s = 0.
\* A call with a Vtransform other than 1 and 2 evaluates no curve.
representable(c) ==
    LET s == get_s(c.grid, c.N)
    IN  \A ix \in Indices(s.shape) :
           /\ (4 * s.at[ix][1]) % s.at[ix][2] = 0
           /\ (c.Vstretching = 3 \/ (c.Vstretching = 4 /\ c.theta_b.E > 1))
                 => s.at[ix] \in {Z(-1), Z(0)}

\* the documented scenario: h = [[100.0]], hc = 20.0, theta_s = 5.0,
\* theta_b = 0.0, Vstretching 4, Vtransform 2, N = 10, zeta = 0 (the rho
\* levels are odd multiples of 1/20, which the cosh table covers)
ScenarioCalls ==
    [grid : {"rho"}, Vtransform : {2}, Vstretching : {4}, N : {10},
     theta_s : {Rat(Z(5))}, theta_b : {Rat(Z(0))},
     h : {nd(<<1, 1>>, LAMBDA ix : Z(100))}, hc : {Z(20)}, zeta : {scalar(Z(0))}]

DepthCalls ==
    { c \in UNION { [grid : {"w", "rho"}, Vtransform : {1, 2, 3},
                     Vstretching : {sa.Vstretching}, N : 1 .. MaxN,
                     theta_s : {sa.theta_s}, theta_b : {sa.theta_b},
                     h : {h}, hc : CriticalDepths, zeta : FreeSurfaces(h)]
                    : sa \in StretchArgs, h \in Bathymetries } :
        representable(c) \/ c.Vtransform \notin {1, 2} }
    \cup ScenarioCalls

InitDepths ==
    /\ call \in DepthCalls
    /\ levels = None
    /\ curve = None
    /\ depths = ""
    /\ z = None
    /\ dpc = "called"
    /\ no_grid
    /\ no_depth_object
    /\ no_tools

\* sw = get_sw(N) in get_zw, srho = get_srho(N) in get_zrho
call_get_s ==
    /\ dpc = "called"
    /\ dpc' = "levels"
    /\ levels' = get_s(call.grid, call.N)
    /\ UNCHANGED <<call, curve, depths, z, gridvars, objvars, toolvars>>

\* C = get_Vstretching(Vstretching, theta_s, theta_b, Hscale)
call_get_Vstretching ==
    LET exc == get_Vstretching_raises(call.Vstretching, call.theta_s, call.theta_b)
        msg == get_Vstretching_message(call.Vstretching, call.theta_s, call.theta_b)
    IN  /\ dpc = "levels"
        /\ IF exc # ""
           THEN /\ dpc' = "raised"
                /\ z' = [exception |-> exc, message |-> msg]
                /\ curve' = None
           ELSE /\ dpc' = "curve"
                /\ curve' = [Vstretching |-> call.Vstretching,
                             theta_s |-> call.theta_s, theta_b |-> call.theta_b]
                /\ z' = z
        /\ UNCHANGED <<call, levels, depths, gridvars, objvars, toolvars>>

\* what get_depths(Vtransform, C, h, hc) returns: the function depths of
\* one of its two branches, or None when neither branch is taken
get_depths_returns(Vtransform) ==
    IF Vtransform = 1 \/ Vtransform = 2 THEN "function" ELSE "None"

\* depths = get_depths(Vtransform, C, h, hc)
call_get_depths ==
    /\ dpc = "curve"
    /\ dpc' = "depths"
    /\ depths' = get_depths_returns(call.Vtransform)
    /\ UNCHANGED <<call, levels, curve, z, gridvars, objvars, toolvars>>

\* return depths(s, zeta); calling None is a TypeError
call_depths ==
    LET s == levels
        exc == IF depths = "None" THEN "TypeError"
               ELSE depths_raises(call.Vtransform, curve, call.h, call.hc, s, call.zeta)
    IN  /\ dpc = "depths"
        /\ IF exc # ""
           THEN dpc' = "raised" /\ z' = [exception |-> exc]
           ELSE /\ dpc' = "returned"
                /\ z' = get_depths(call.Vtransform, curve, call.h, call.hc, s, call.zeta)
        /\ UNCHANGED <<call, levels, curve, depths, gridvars, objvars, toolvars>>

NextDepths ==
    \/ call_get_s
    \/ call_get_Vstretching
    \/ call_get_depths
    \/ call_depths

SpecDepths == InitDepths /\ [][NextDepths]_vars

(***************************************************************************)
(* octant/ocean/depths.py: class Depths.  A method returns the record      *)
(* [value, reads]: what it returns (or the exception it raises) and the    *)
(* index items it requested of self.zeta, in order.                        *)
(***************************************************************************)
zeros(shp) == nd(shp, LAMBDA ix : Z(0))

\* Depths.__init__(hc, h, theta_b, theta_s, N, grid, zeta)
Depths_init(a) ==
    [value |-> [class |-> "Depths", hc |-> a.hc, h |-> a.h,
                theta_b |-> a.theta_b, theta_s |-> a.theta_s,
                N |-> IF a.grid = "w" THEN a.N + 1 ELSE a.N,
                grid |-> a.grid,
                zeta |-> IF a.zeta = None THEN zeros(a.h.shape) ELSE a.zeta],
     reads |-> <<>>]

\* the property sc
_get_sc(obj) ==
    IF obj.grid = "rho"
    THEN LET sc == linspace_m1_0(obj.N + 1)
         IN  array1([k \in 1 .. obj.N |-> rmul(Q(1, 2), radd(sc[k + 1], sc[k]))])
    ELSE array1(linspace_m1_0(obj.N))

\* the property Cs
_get_Cs(obj) ==
    LET sc == _get_sc(obj)
        a == obj.theta_s
        b == obj.theta_b.q
    IN  nd(sc.shape, LAMBDA ix :
           radd(rdiv(rmul(rsub(Z(1), b), sinh(a, sc.at[ix])), sinh(a, Z(1))),
                rdiv(rmul(rmul(Q(1, 2), b),
                          rsub(tanh(a, radd(sc.at[ix], Q(1, 2))), tanh(a, Q(1, 2)))),
                     tanh(a, Q(1, 2)))))

\* the array z that __getitem__ fills, for a zeta with a leading time axis
Depths_fill(obj, zeta) ==
    LET sc == _get_sc(obj)
        Cs == _get_Cs(obj)
        nh == ndim(obj.h)
        z0(k, p) == radd(rmul(rsub(sc.at[<<k>>], Cs.at[<<k>>]), obj.hc),
                         rmul(Cs.at[<<k>>], obj.h.at[p]))
    IN  nd(<<zeta.shape[1], obj.N>> \o obj.h.shape,
           LAMBDA ix :
              LET n == ix[1]
                  k == ix[2]
                  p == SubSeq(ix, 3, 2 + nh)
              IN  radd(z0(k, p),
                       rmul(zeta.at[<<n>> \o p],
                            radd(Z(1), rdiv(z0(k, p), obj.h.at[p])))))

\* Depths.__getitem__(key); key = [tuple, items]
Depths_getitem(obj, key) ==
    LET timedep == ndim(obj.zeta) > ndim(obj.h)
        first == <<key.items[1]>>
        zeta0 == IF timedep THEN getitem(obj.zeta, first) ELSE obj.zeta
        res_index == IF key.tuple /\ timedep THEN <<All>> \o Tail(key.items)
                     ELSE IF timedep THEN <<All>>
                     ELSE key.items
        \* zeta[newaxis, :] is taken of self.zeta itself when no item was read
        reads == IF timedep THEN first
                 ELSE IF ndim(obj.h) = ndim(obj.zeta) THEN <<All>> ELSE <<>>
    IN  IF fails(zeta0) THEN [value |-> zeta0, reads |-> reads]
        ELSE LET zeta == IF ndim(obj.h) = ndim(zeta0) THEN newaxis(zeta0, 1) ELSE zeta0
             IN  IF SubSeq(zeta.shape, 2, ndim(zeta)) # obj.h.shape
                 THEN [value |-> ValueError, reads |-> reads]
                 ELSE LET zi == getitem(Depths_fill(obj, zeta), res_index)
                      IN  [value |-> IF fails(zi) THEN zi ELSE squeeze(zi),
                           reads |-> reads]

(***************************************************************************)
(* octant/roms.py: class nc_depths.  nc is the netCDF file: the record     *)
(* [dimensions, variables]; ncg is None or a second file.                  *)
(***************************************************************************)
\* nc_depths.__init__(nc, grid, ncg)
nc_depths_init(a) ==
    LET nc == a.nc
        N0 == IF "N" \in DOMAIN nc.dimensions THEN nc.dimensions["N"]
              ELSE nc.dimensions["s_rho"]
        N == IF a.grid = "w" THEN N0 + 1 ELSE N0
        hasV == "Vtransform" \in DOMAIN nc.variables
        Vtransform == IF hasV THEN nc.variables["Vtransform"] ELSE 1
        Vstretching == IF hasV THEN nc.variables["Vstretching"] ELSE 1
        theta_s == nc.variables["theta_s"]
        theta_b == nc.variables["theta_b"]
        exc == get_Vstretching_raises(Vstretching, theta_s, theta_b)
    IN  IF a.grid \notin {"rho", "w"}
        THEN [value |-> [exception |-> "Exception"], reads |-> <<>>]
        ELSE IF a.ncg # None
        \* self.ncg is assigned only when ncg is None
        THEN [value |-> [exception |-> "AttributeError"], reads |-> <<>>]
        ELSE IF exc # ""
        THEN [value |-> [exception |-> exc], reads |-> <<>>]
        ELSE [value |-> [class |-> "nc_depths", N |-> N, grid |-> a.grid,
                         s |-> get_s(a.grid, N),
                         h |-> nc.variables["h"], hc |-> nc.variables["hc"],
                         theta_b |-> theta_b, theta_s |-> theta_s,
                         Vtransform |-> Vtransform, Vstretching |-> Vstretching,
                         zeta |-> nc.variables["zeta"]],
              reads |-> <<>>]

\* self.depths(self.s, zeta): the array, or the exception raised
nc_depths_depths(obj, zeta) ==
    LET cv == [Vstretching |-> obj.Vstretching, theta_s |-> obj.theta_s,
               theta_b |-> obj.theta_b]
        exc == IF obj.Vtransform \notin {1, 2} THEN "TypeError"
               ELSE depths_raises(obj.Vtransform, cv, obj.h, obj.hc, obj.s, zeta)
    IN  IF exc # "" THEN [exception |-> exc]
        ELSE get_depths(obj.Vtransform, cv, obj.h, obj.hc, obj.s, zeta)

\* a slip: the whole zeta variable is read, and the time index is taken of
\* the copy in memory
nc_depths_getitem_whole_series(obj, key) ==
    LET indices == pad_key(key.items, IF Len(key.items) < 4 THEN 4 ELSE Len(key.items))
        isint == ~indices[1].all
        read == getitem(obj.zeta, <<indices[1]>>)
        reads == <<All>>
        rest == <<indices[2], indices[3], indices[4]>>
    IN  IF fails(read) THEN [value |-> read, reads |-> reads]
        ELSE IF ~isint /\ ndim(read) = 0 THEN [value |-> IndexError, reads |-> reads]
        ELSE LET zeta == IF isint THEN read ELSE newaxis(read, 2)
                 d == nc_depths_depths(obj, zeta)
             IN  [value |-> IF fails(d) THEN d
                            ELSE getitem(d, IF isint THEN rest ELSE <<All>> \o rest),
                  reads |-> reads]

\* nc_depths.__getitem__(indices); key = [tuple, items]
nc_depths_getitem(obj, key) ==
    LET indices == pad_key(key.items, IF Len(key.items) < 4 THEN 4 ELSE Len(key.items))
        isint == ~indices[1].all
        read == getitem(obj.zeta, <<indices[1]>>)
        reads == <<indices[1]>>
        rest == <<indices[2], indices[3], indices[4]>>
    IN  IF fails(read) THEN [value |-> read, reads |-> reads]
        ELSE IF ~isint /\ ndim(read) = 0 THEN [value |-> IndexError, reads |-> reads]
        ELSE LET zeta == IF isint THEN read ELSE newaxis(read, 2)
                 d == nc_depths_depths(obj, zeta)
             IN  [value |-> IF fails(d) THEN d
                            ELSE getitem(d, IF isint THEN rest ELSE <<All>> \o rest),
                  reads |-> reads]

(***************************************************************************)
(* A depth object: constructed once, then indexed.                         *)
(***************************************************************************)
MaxNt == 2

\* the numbers of levels for which the s-levels are multiples of 1/4
Levels == {1, 2}

ObjectBathymetries ==
    { nd(<<1, 2>>, LAMBDA ix : Z(10 + 30 * ix[2])),
      nd(<<2, 2>>, LAMBDA ix : Z(10 + 10 * ix[1] + 30 * ix[2])) }

\* free surfaces for h: without a time axis, and with nt times
zeta_timeless(h) == nd(h.shape, LAMBDA ix : Z(1 + ix[1] - 3 * ix[2]))

zeta_series(h, nt) ==
    nd(<<nt>> \o h.shape, LAMBDA ix : Z(8 * ix[1] + 1 + ix[2] - 3 * ix[3]))

ObjectFreeSurfaces(h) ==
    {zeta_timeless(h)} \cup {zeta_series(h, nt) : nt \in 1 .. MaxNt}

\* the last line: a critical depth above the shallowest h
DepthsArgs ==
    UNION { [class : {"Depths"}, hc : {Z(5)}, h : {h},
             theta_b : {Rat(Q(1, 2))}, theta_s : {Ln4(2)},
             N : Levels, grid : {"rho", "w"},
             zeta : {None} \cup ObjectFreeSurfaces(h)] : h \in ObjectBathymetries }
    \cup UNION { [class : {"Depths"}, hc : {Z(20)}, h : {h},
                  theta_b : {Rat(Q(1, 2))}, theta_s : {Ln4(2)},
                  N : Levels, grid : {"w"},
                  zeta : {zeta_series(h, 1)}] : h \in ObjectBathymetries }

\* the files: with the dimension s_rho or N, with or without Vtransform
netCDF(h, N, zeta, dimname, withV) ==
    [dimensions |-> IF dimname = "N" THEN [N |-> N] ELSE [s_rho |-> N],
     variables |->
        IF withV
        THEN [h |-> h, hc |-> Z(5), theta_b |-> Rat(Q(1, 2)), theta_s |-> Ln4(2),
              zeta |-> zeta, Vtransform |-> 2, Vstretching |-> 1]
        ELSE [h |-> h, hc |-> Z(5), theta_b |-> Rat(Q(1, 2)), theta_s |-> Ln4(2),
              zeta |-> zeta]]

FilesN == { netCDF(h, 2, zeta_series(h, 1), "N", FALSE) : h \in ObjectBathymetries }

Files ==
    UNION { { netCDF(h, N, zeta, "s_rho", withV) :
                N \in Levels, zeta \in ObjectFreeSurfaces(h), withV \in BOOLEAN }
            : h \in ObjectBathymetries }
    \cup FilesN

\* the last two lines are constructions that fail: an unknown grid, and a
\* separate grid file
nc_depthsArgs ==
    [class : {"nc_depths"}, nc : Files, grid : {"rho", "w"}, ncg : {None}]
    \cup [class : {"nc_depths"}, nc : FilesN, grid : {"u"}, ncg : {None}]
    \cup { [class |-> "nc_depths", nc |-> fl, grid |-> "rho", ncg |-> fl] : fl \in FilesN }

\* the keys the model indexes with: depths[t] (one t is out of range),
\* depths[:], depths[t, k, j, i] and depths[k, j, i]
Keys ==
    [tuple : {FALSE}, items : {<<I(t)>> : t \in 0 .. MaxNt} \cup {<<All>>}]
    \cup [tuple : {TRUE},
          items : {<<I(t), I(1), I(0), I(1)>> : t \in 0 .. (MaxNt - 1)}
                  \cup {<<I(0), I(0), I(0)>>, <<I(1), I(0), I(1)>>}]

InitObject ==
    /\ args \in DepthsArgs \cup nc_depthsArgs
    /\ self = None
    /\ last_key = None
    /\ result = None
    /\ zeta_reads = <<>>
    /\ no_grid
    /\ no_depths_call
    /\ no_tools

constructed == self # None /\ ~fails(self)

\* z = Depths(hc, h, theta_b, theta_s, N, grid, zeta)
construct_Depths ==
    LET r == Depths_init(args)
    IN  /\ args # None /\ self = None /\ args.class = "Depths"
        /\ self' = r.value
        /\ zeta_reads' = r.reads
        /\ UNCHANGED <<args, last_key, result, gridvars, depthvars, toolvars>>

\* z = nc_depths(nc, grid, ncg)
construct_nc_depths ==
    LET r == nc_depths_init(args)
    IN  /\ args # None /\ self = None /\ args.class = "nc_depths"
        /\ self' = r.value
        /\ zeta_reads' = r.reads
        /\ UNCHANGED <<args, last_key, result, gridvars, depthvars, toolvars>>

\* z[k] of a Depths object
index_Depths(k) ==
    LET r == Depths_getitem(self, k)
    IN  /\ constructed /\ self.class = "Depths"
        /\ last_key' = k
        /\ result' = r.value
        /\ zeta_reads' = r.reads
        /\ UNCHANGED <<args, self, gridvars, depthvars, toolvars>>

\* z[k] of an nc_depths object
index_nc_depths(k) ==
    LET r == nc_depths_getitem(self, k)
    IN  /\ constructed /\ self.class = "nc_depths"
        /\ last_key' = k
        /\ result' = r.value
        /\ zeta_reads' = r.reads
        /\ UNCHANGED <<args, self, gridvars, depthvars, toolvars>>

NextObject ==
    \/ construct_Depths
    \/ construct_nc_depths
    \/ \E k \in Keys : index_Depths(k)
    \/ \E k \in Keys : index_nc_depths(k)

SpecObject == InitObject /\ [][NextObject]_vars

(***************************************************************************)
(* Claims about the stretching curves and the depth transforms.            *)
(***************************************************************************)
\* the curve has the end values C(0) = 0 and C(-1) = -1
has_end_values(cv) ==
    /\ get_Vstretching(cv.Vstretching, cv.theta_s, cv.theta_b, Z(0)) = Z(0)
    /\ get_Vstretching(cv.Vstretching, cv.theta_s, cv.theta_b, Z(-1)) = Z(-1)

\* C3: for each stretching kind 1 to 4 and every parameter set in its valid
\* domain (kinds 1 and 4: the ranges the constructor asserts; kinds 2 and 3:
\* whatever the constructor accepts), the curve get_Vstretching returns has
\* C(0) = 0 and C(-1) = -1.
C3_StretchingEndValues ==
    curve # None => has_end_values(curve)

\* the depths of the returned array at the levels where s = 0 and s = -1
surface_is_zeta ==
    LET s == get_s(call.grid, call.N)
    IN  \A ix \in Indices(z.shape) :
           s.at[<<ix[1]>>] = Z(0) => z.at[ix] = call.zeta.at[bindex(call.zeta.shape, ix)]

bottom_is_minus_h ==
    LET s == get_s(call.grid, call.N)
    IN  \A ix \in Indices(z.shape) :
           s.at[<<ix[1]>>] = Z(-1) => z.at[ix] = rneg(call.h.at[bindex(call.h.shape, ix)])

\* hc + h vanishes somewhere: the denominator of Vtransform 2
denominator_vanishes ==
    \E p \in Indices(call.h.shape) : radd(call.hc, call.h.at[p]) = Z(0)

\* C4 as stated: for transform 1 (with hc <= min(h)) and transform 2, any
\* h > 0, any hc and any zeta, given a curve with C(0) = 0 and C(-1) = -1,
\* the depth is zeta where s = 0 and -h where s = -1.
C4_DepthEndValues ==
    (dpc = "returned" /\ has_end_values(curve))
        => (surface_is_zeta /\ bottom_is_minus_h)

\* C4 amended: the same, for transform 2 only where hc + h is nowhere zero.
C4_DepthEndValuesNonzeroDenominator ==
    (dpc = "returned" /\ has_end_values(curve)
       /\ (call.Vtransform = 2 => ~denominator_vanishes))
        => (surface_is_zeta /\ bottom_is_minus_h)

\* a returned column with both end levels, a negative hc, transform 2 and a
\* free surface that varies in space
C4_Witness ==
    /\ dpc = "returned" /\ has_end_values(curve)
    /\ call.Vtransform = 2 /\ ~denominator_vanishes /\ call.hc = Z(-5)
    /\ call.grid = "w" /\ call.N = 3
    /\ ndim(call.h) = 2 /\ call.zeta.shape = call.h.shape
    /\ z.shape = <<3, 1, 2>>
    /\ z.at[<<2, 0, 1>>] = Z(-2) /\ z.at[<<0, 0, 1>>] = Z(-40)

\* C11: get_depths called with a Vtransform other than 1 or 2, and
\* get_Vstretching called with a Vstretching other than 1, 2, 3 or 4, each
\* end that very call with an exception (the unsupported-configuration
\* error) and return nothing.
C11_UnsupportedKindsRaise ==
    /\ (call.Vstretching \notin 1 .. 4 /\ dpc \notin {"called", "levels"})
          => (dpc = "raised" /\ z.exception = "Exception" /\ curve = None)
    /\ (call.Vtransform \notin {1, 2} /\ curve # None /\ dpc # "curve")
          => (dpc = "raised" /\ z.exception = "Exception" /\ depths = "")

\* the published domain of each stretching kind (kind 2 publishes none)
in_published_domain(Vstretching, theta_s, theta_b) ==
    CASE Vstretching = 1 -> /\ theta_pos(theta_s) /\ theta_le(theta_s, 8)
                            /\ theta_nonneg(theta_b) /\ theta_le(theta_b, 1)
      [] Vstretching = 3 -> theta_pos(theta_s) /\ theta_pos(theta_b)
      [] Vstretching = 4 -> /\ theta_pos(theta_s) /\ theta_le(theta_s, 10)
                            /\ theta_nonneg(theta_b) /\ theta_le(theta_b, 3)
      [] OTHER -> TRUE

\* the messages that name theta_s, and those that name theta_b
names_theta_s(msg) ==
    msg \in {"theta_s not in valid range for Vstretching == 1",
             "theta_s must be positive for Vstretching == 3",
             "theta_s not in valid range for Vstretching == 4"}

names_theta_b(msg) ==
    msg \in {"theta_b not in valid range for Vstretching == 1",
             "theta_b must be positive for Vstretching == 3"}

theta_s_in_range(Vstretching, theta_s) ==
    \E tb \in {Rat(Z(1))} : in_published_domain(Vstretching, theta_s, tb)

theta_b_in_range(Vstretching, theta_b) ==
    \E ts \in {Rat(Z(1))} : in_published_domain(Vstretching, ts, theta_b)

\* C12: a stretching constructor of kind 1, 3 or 4 called with a parameter
\* outside its published domain (kind 1: 0 < theta_s <= 8, 0 <= theta_b <= 1;
\* kind 3: theta_s > 0, theta_b > 0; kind 4: 0 < theta_s <= 10,
\* 0 <= theta_b <= 3) ends with a validation error whose message names a
\* parameter that is out of its range.
C12_OutOfDomainRejected ==
    (/\ dpc \notin {"called", "levels"}
     /\ ~in_published_domain(call.Vstretching, call.theta_s, call.theta_b))
        => /\ curve = None /\ z.exception = "AssertionError"
           /\ names_theta_s(z.message) => ~theta_s_in_range(call.Vstretching, call.theta_s)
           /\ names_theta_b(z.message) => ~theta_b_in_range(call.Vstretching, call.theta_b)
           /\ names_theta_s(z.message) \/ names_theta_b(z.message)

(***************************************************************************)
(* Claims about the depth objects.                                         *)
(***************************************************************************)
\* obj[key], for either class
object_getitem(obj, key) ==
    IF obj.class = "Depths" THEN Depths_getitem(obj, key) ELSE nc_depths_getitem(obj, key)

\* zeta has no time dimension: it has the shape of h
timeless == constructed /\ self.zeta.shape = self.h.shape

indexed == constructed /\ last_key # None

\* C9: for a depth object whose zeta has the shape of h, depths[k, j, i] is
\* valid and returns what depths[0, k, j, i] returns.
C9_TimelessIndexing ==
    (indexed /\ timeless /\ last_key.tuple /\ Len(last_key.items) = 3)
        => /\ ~fails(result)
           /\ result = object_getitem(self, [tuple |-> TRUE,
                                             items |-> <<I(0)>> \o last_key.items]).value

\* C10: constructing a depth object requests nothing of the zeta reference,
\* and an index operation whose first item is an integer t makes exactly
\* one request of it; when zeta has a time axis that request is for the
\* index t alone, never for the whole series.
C10_OneTimeSliceRead ==
    /\ (self # None /\ last_key = None) => zeta_reads = <<>>
    /\ (indexed /\ ~last_key.items[1].all)
          => /\ Len(zeta_reads) = 1
             /\ ~timeless => zeta_reads = <<last_key.items[1]>>

\* depths[1, 1, 0, 1] of an nc_depths object over a series of two times
\* returned a depth, and the one request made of zeta was for time 1
C10_Witness ==
    /\ indexed /\ self.class = "nc_depths"
    /\ self.zeta.shape[1] = 2 /\ ndim(self.zeta) = 3
    /\ last_key = [tuple |-> TRUE, items |-> <<I(1), I(1), I(0), I(1)>>]
    /\ ~fails(result) /\ result.shape = <<>>
    /\ zeta_reads = <<I(1)>>

\* C13: every evaluation of transform-1 depths with hc > min(h) ends with
\* the precondition failure, both through get_depths (get_Vtransform_1) and
\* through the Depths class, and an evaluation of transform-2 depths
\* returns whatever hc is relative to h.
C13_CriticalDepthPrecondition ==
    /\ (call # None /\ depths = "function" /\ dpc \in {"returned", "raised"})
          => /\ (call.Vtransform = 1 /\ ~all_ge(call.h, call.hc))
                   => (dpc = "raised" /\ z.exception = "AssertionError")
             /\ call.Vtransform = 2 => dpc = "returned"
    /\ (indexed /\ self.class = "Depths" /\ ~all_ge(self.h, self.hc))
          => (fails(result) /\ result.exception = "AssertionError")

\* C14: for each stretching kind 1 to 4, every parameter set within its
\* valid domain (for kind 2, which publishes none, theta_s > 0) and every
\* s-level with -1 <= s <= 0, the value of the curve the constructor
\* returned satisfies -1 <= C(s) <= 0.
C14_CurveRange ==
    (/\ curve # None /\ representable(call)
     /\ in_published_domain(curve.Vstretching, curve.theta_s, curve.theta_b)
     /\ curve.Vstretching = 2 => theta_pos(curve.theta_s))
        => \A ix \in Indices(levels.shape) :
              check_s_limits(levels.at[ix])
                 => /\ rle(Z(-1), C_of(curve, levels).at[ix])
                    /\ rle(C_of(curve, levels).at[ix], Z(0))

(***************************************************************************)
(* The s-levels: a get_zw / get_zrho call or a depth object.               *)
(***************************************************************************)
InitLevels == InitDepths \/ InitObject

\* the steps that compute the s-levels: get_s inside get_zw / get_zrho, and
\* the two constructors
NextLevels == call_get_s \/ construct_Depths \/ construct_nc_depths

SpecLevels == InitLevels /\ [][NextLevels]_vars

\* a is the M evenly spaced levels from -1 to 0: (M - 1) * (a[k] + 1) = k
is_even_levels(a, M) ==
    /\ a.shape = <<M>>
    /\ \A k \in 0 .. (M - 1) :
          LET n == a.at[<<k>>][1]
              d == a.at[<<k>>][2]
          IN  d > 0 /\ IF M = 1 THEN n = -d ELSE (M - 1) * (n + d) = k * d

\* a is the N midpoints of the N + 1 evenly spaced levels from -1 to 0:
\* 2 * N * (a[k] + 1) = 2 * k + 1
is_midpoints(a, N) ==
    /\ a.shape = <<N>>
    /\ \A k \in 0 .. (N - 1) :
          LET n == a.at[<<k>>][1]
              d == a.at[<<k>>][2]
          IN  d > 0 /\ 2 * N * (n + d) = (2 * k + 1) * d

\* the number of layers in the file an nc_depths object was built from
file_N ==
    IF "N" \in DOMAIN args.nc.dimensions THEN args.nc.dimensions["N"]
    ELSE args.nc.dimensions["s_rho"]

is_nc_depths == constructed /\ self.class = "nc_depths"

\* C15 as stated: the rho s-array for N is the N midpoints of the N + 1
\* evenly spaced levels from -1 to 0, and the w s-array for the same N
\* (get_s('w', N), the levels of get_zw(..., N, ...), nc_depths with
\* grid = 'w') is exactly those N + 1 levels.
C15_LevelsConsistent ==
    /\ levels # None =>
          IF call.grid = "rho" THEN is_midpoints(levels, call.N)
          ELSE is_even_levels(levels, call.N + 1)
    /\ is_nc_depths =>
          IF self.grid = "rho" THEN is_midpoints(self.s, file_N)
          ELSE is_even_levels(self.s, file_N + 1)

\* C15 amended: the rho s-array for N is the N midpoints of the N + 1 evenly
\* spaced levels from -1 to 0; nc_depths with grid = 'w' over a file of
\* N layers uses exactly those N + 1 levels; get_s('w', N) and
\* get_zw(..., N, ...) use N evenly spaced levels from -1 to 0.
C15_LevelsOfNPoints ==
    /\ levels # None =>
          IF call.grid = "rho" THEN is_midpoints(levels, call.N)
          ELSE is_even_levels(levels, call.N)
    /\ is_nc_depths =>
          IF self.grid = "rho" THEN is_midpoints(self.s, file_N)
          ELSE is_even_levels(self.s, file_N + 1)

\* get_zw with N = 4 computed the four levels -1, -2/3, -1/3, 0
C15_Witness ==
    /\ levels # None /\ call.grid = "w" /\ call.N = 4
    /\ levels = array1(<<Z(-1), Q(-2, 3), Q(-1, 3), Z(0)>>)

\* x and y are the 3x3 vertex arrays evenly spaced on [0, L] x [0, L], x
\* increasing along the column index and y along the row index
evenly_spaced_3x3(x, y, L) ==
    /\ shape(x) = <<3, 3>> /\ shape(y) = <<3, 3>>
    /\ ~x.masked /\ ~y.masked
    /\ L > 0
    /\ \A q \in Idx(3, 3) : 2 * x.v[q] = q[2] * L /\ 2 * y.v[q] = q[1] * L

\* the side L of the square the vertices of the call span
side(a) == a.x.v[<<0, a.x.nc - 1>>] - a.x.v[<<0, 0>>]

\* the call constructs a Cartesian grid on the evenly spaced 3x3 vertices
unit_grid_call(a) ==
    /\ a.proj = None
    /\ nan_vertices(a) = {}
    /\ evenly_spaced_3x3(a.x, a.y, side(a))

\* an angle entry is 0 when each of its terms is: a term "ud" is the angle
\* of the direction (dy, dx) = (0, 1), a term "lr" that of (1, 0) less pi/2
angle_is_zero(e) ==
    \A k \in 1 .. Len(e.terms) :
        e.terms[k][2] = IF e.terms[k][1] = "ud" THEN arctan2(0, 1) ELSE arctan2(1, 0)

\* dx = dy = L/2 at every entry and angle = 0 at every vertex
half_spacing_no_rotation(ddx, ddy, ang, L) ==
    /\ \A q \in Idx(ddx.nr, ddx.nc) : ddx.v[q] = sqrt((L \div 2) * (L \div 2))
    /\ \A q \in Idx(ddy.nr, ddy.nc) : ddy.v[q] = sqrt((L \div 2) * (L \div 2))
    /\ \A q \in Idx(ang.nr, ang.nc) : ~ang.mask[q] /\ angle_is_zero(ang.v[q])

\* C20 (as claimed): for the 3x3 vertex grid evenly spaced on the unit
\* square, CGrid yields a single rho cell at (0.5, 0.5), dx = dy = 0.5 at
\* every entry and angle = 0 at every entry.
C20_SingleRhoCell ==
    [][(CGrid_construct /\ unit_grid_call(CGrid_args(ctor)))
          => LET L == side(CGrid_args(ctor))
             IN  /\ raised' = ""
                 /\ shape(x_rho') = <<1, 1>> /\ shape(y_rho') = <<1, 1>>
                 /\ 2 * x_rho'.v[<<0, 0>>] = L /\ 2 * y_rho'.v[<<0, 0>>] = L
                 /\ half_spacing_no_rotation(dx', dy', angle', L)]_vars

\* C20 (amended): for that grid CGrid yields the four rho cells of a 2x2
\* array, at (0.25 or 0.75, 0.25 or 0.75), the single interior vertex
\* (psi point) being at (0.5, 0.5); dx = dy = 0.5 at every entry and
\* angle = 0 at every entry.
C20_FourRhoCells ==
    [][(CGrid_construct /\ unit_grid_call(CGrid_args(ctor)))
          => LET L == side(CGrid_args(ctor))
             IN  /\ raised' = ""
                 /\ shape(x_rho') = <<2, 2>> /\ shape(y_rho') = <<2, 2>>
                 /\ \A q \in Idx(2, 2) : /\ 4 * x_rho'.v[q] = (2 * q[2] + 1) * L
                                          /\ 4 * y_rho'.v[q] = (2 * q[1] + 1) * L
                 /\ shape(x_psi') = <<1, 1>> /\ shape(y_psi') = <<1, 1>>
                 /\ 2 * x_psi'.v[<<0, 0>>] = L /\ 2 * y_psi'.v[<<0, 0>>] = L
                 /\ half_spacing_no_rotation(dx', dy', angle', L)]_vars

\* the evenly spaced 3x3 grid has just been constructed
C20_Witness ==
    /\ ctor # None /\ x_vert # None /\ nedits = 0
    /\ unit_grid_call(CGrid_args(ctor))
    /\ x_vert = CGrid_args(ctor).x /\ y_vert = CGrid_args(ctor).y
    /\ shape(x_rho) = <<2, 2>>
    /\ shape(angle) = <<3, 3>>

\* b is greater than a (by the sign of the difference)
greater(b, a) == rlt(Z(0), rsub(b, a))

\* C21: in the documented scenario (h = [[100]], hc = 20, theta_s = 5,
\* theta_b = 0, Vstretching 4, Vtransform 2, N = 10, zeta = 0) get_zrho
\* returns 10 depths that strictly increase with the level index, the
\* bottom one nearer to -100 than to 0 and the top one nearer to 0, all
\* within [-100, 0].
C21_ScenarioDepthsIncrease ==
    (call \in ScenarioCalls /\ dpc \in {"returned", "raised"})
        => /\ dpc = "returned"
           /\ z.shape = <<10, 1, 1>>
           /\ \A k \in 0 .. 8 : greater(z.at[<<k + 1, 0, 0>>], z.at[<<k, 0, 0>>])
           /\ \A k \in 0 .. 9 : /\ rle(Z(-100), z.at[<<k, 0, 0>>])
                                 /\ rle(z.at[<<k, 0, 0>>], Z(0))
           /\ rlt(z.at[<<0, 0, 0>>], Z(-50))
           /\ rlt(Z(-50), z.at[<<9, 0, 0>>])

\* the vertices form an axis-aligned, evenly spaced rectangular grid: x
\* advances by a fixed step along the columns, y along the rows, and no
\* vertex is masked
rectangular(xv, yv) ==
    /\ \A q \in Idx(xv.nr, xv.nc) : ~xv.mask[q] /\ ~yv.mask[q]
    /\ \E hx \in 1 .. 16, hy \in 1 .. 16 :
          \A q \in Idx(xv.nr, xv.nc) :
             /\ xv.v[q] = xv.v[<<0, 0>>] + q[2] * hx
             /\ yv.v[q] = yv.v[<<0, 0>>] + q[1] * hy

\* an orthogonality entry is 0: each of the four angles is arccos(0) = pi/2
is_right_angle(e) ==
    \A k \in 1 .. 4 : e.mean_abs[k] = [arccos |-> <<0, 0, 1>>]

\* C22: on an axis-aligned, evenly spaced rectangular vertex grid
\* calculate_orthogonality returns 0 at every cell.
C22_RectangularIsOrthogonal ==
    (x_vert # None /\ rectangular(x_vert, y_vert))
        => /\ shape(orthogonality) = <<x_vert.nr - 1, x_vert.nc - 1>>
           /\ \A q \in Idx(orthogonality.nr, orthogonality.nc) :
                  is_right_angle(orthogonality.v[q])

\* a rectangular grid of 2 x 3 cells whose mask has been edited, and whose
\* orthogonality error has six entries
C22_Witness ==
    /\ x_vert # None /\ rectangular(x_vert, y_vert)
    /\ shape(orthogonality) = <<2, 3>>
    /\ nedits > 0

(***************************************************************************)
(* octant/tools.py: shrink(a, b).  The call's frame is the record shrk:    *)
(* a and b are the arguments (b a tuple of ints, an int, or an array), work *)
(* is the local a being shrunk towards the tuple target, axis the working  *)
(* axis (1-based; dim_idx = axis - 1 - ndim), first the first array of the *)
(* two-array form once shrunk, pc the position in the code.                *)
(***************************************************************************)
MaxLen == 4

\* a[1:-1] along axis k (after swapaxes(0, dim_idx): a[1:-1,:])
trim_edges(a, k) ==
    nd([a.shape EXCEPT ![k] = @ - 2], LAMBDA ix : a.at[[ix EXCEPT ![k] = @ + 1]])

\* 0.5*(a[1:] + a[:-1]) along axis k
average_adjacent(a, k) ==
    nd([a.shape EXCEPT ![k] = @ - 1],
       LAMBDA ix : rmul(Q(1, 2), radd(a.at[[ix EXCEPT ![k] = @ + 1]], a.at[ix])))

\* one pass of the 1-D loop body (lines 79-82)
shrink_1d_body(a, dim) ==
    IF dim - a.shape[1] >= 2 THEN trim_edges(a, 1) ELSE average_adjacent(a, 1)

\* a slip: the N-D loop body stops after trimming
shrink_nd_body_trim_only(a, k, dim) ==
    IF a.shape[k] - dim >= 2 THEN trim_edges(a, k) ELSE a

\* one pass of the N-D loop body (lines 88-91): two successive ifs
shrink_nd_body(a, k, dim) ==
    LET a1 == IF a.shape[k] - dim >= 2 THEN trim_edges(a, k) ELSE a
    IN  IF a1.shape[k] - dim = 1 THEN average_adjacent(a1, k) ELSE a1

\* b[dim_idx] for the working axis of work; None if the tuple is too short
target_dim(fr) ==
    LET i == Len(fr.target) - ndim(fr.work) + fr.axis
    IN  IF i >= 1 THEN [int |-> fr.target[i]] ELSE None

\* the frame on entering the branch for a tuple target (lines 76 and 84)
shrink_branch(fr, work, target) ==
    [fr EXCEPT !.work = work, !.target = target, !.axis = 1,
               !.pc = IF Len(work.shape) = 1 THEN "loop1" ELSE "loopN"]

\* arrays the model passes: values are squares, so that trimming and
\* averaging give different results
array_1d(n) == nd(<<n>>, LAMBDA ix : Z(ix[1] * ix[1]))
array_2d(n, m) == nd(<<n, m>>, LAMBDA ix : Z(ix[1] * ix[1] + 5 * ix[2]))

ShrinkArrays ==
    {array_1d(n) : n \in 0 .. MaxLen} \cup {array_2d(n, m) : n \in 1 .. MaxLen, m \in 1 .. 2}

ShrinkShapes ==
    {<<n>> : n \in 0 .. MaxLen} \cup {<<n, m>> : n \in 0 .. MaxLen, m \in 1 .. 3}
    \cup {<<2, 1, 9>>, <<>>}

ShrinkCalls ==
    [a : ShrinkArrays, b : [tuple : ShrinkShapes] \cup [int : 0 .. MaxLen]]
    \cup [a : ShrinkArrays, b : {[array |-> array_1d(2)], [array |-> array_2d(2, 3)],
                                 [array |-> array_2d(3, 1)]}]

InitShrink ==
    /\ \E c \in ShrinkCalls :
          shrk = [a |-> c.a, b |-> c.b, work |-> None, target |-> <<>>, axis |-> 0,
                  first |-> None, pc |-> "called", ret |-> None]
    /\ no_grid /\ no_depths_call /\ no_depth_object /\ no_tools_but("shrk")

\* lines 65-74: the two-array form starts with shrink(a, b.shape); an int
\* becomes a 1-tuple
shrink_enter ==
    /\ shrk # None /\ shrk.pc = "called"
    /\ shrk' = IF "array" \in DOMAIN shrk.b
               THEN IF ndim(shrk.a) # ndim(shrk.b.array)
                    THEN [shrk EXCEPT !.pc = "raised", !.ret = [exception |-> "Exception"]]
                    ELSE shrink_branch(shrk, shrk.a, shrk.b.array.shape)
               ELSE IF "int" \in DOMAIN shrk.b
                    THEN shrink_branch(shrk, shrk.a, <<shrk.b.int>>)
                    ELSE shrink_branch(shrk, shrk.a, shrk.b.tuple)
    /\ UNCHANGED <<gridvars, depthvars, objvars, iso, cft, bdy, st3, ncgrid>>

\* line 77: dim = b[-1]
shrink_1d_dim(fr) ==
    IF fr.target = <<>> THEN None ELSE [int |-> fr.target[Len(fr.target)]]

\* lines 78-82: one pass of the 1-D while loop
shrink_1d_step ==
    /\ shrk # None /\ shrk.pc = "loop1"
    /\ shrink_1d_dim(shrk) # None
    /\ shrk.work.shape[1] > shrink_1d_dim(shrk).int
    /\ shrk' = [shrk EXCEPT !.work = shrink_1d_body(shrk.work, shrink_1d_dim(shrk).int)]
    /\ UNCHANGED <<gridvars, depthvars, objvars, iso, cft, bdy, st3, ncgrid>>

\* lines 87-91: one pass of the N-D while loop on the working axis
shrink_nd_step ==
    /\ shrk # None /\ shrk.pc = "loopN"
    /\ shrk.axis <= ndim(shrk.work)
    /\ target_dim(shrk) # None
    /\ shrk.work.shape[shrk.axis] > target_dim(shrk).int
    /\ shrk' = [shrk EXCEPT
                   !.work = shrink_nd_body(shrk.work, shrk.axis, target_dim(shrk).int)]
    /\ UNCHANGED <<gridvars, depthvars, objvars, iso, cft, bdy, st3, ncgrid>>

\* lines 84-92: the while loop of the working axis is over; go to the next axis
shrink_next_axis ==
    /\ shrk # None /\ shrk.pc = "loopN"
    /\ shrk.axis <= ndim(shrk.work)
    /\ IF target_dim(shrk) = None
       THEN shrk' = [shrk EXCEPT !.pc = "raised", !.ret = [exception |-> "IndexError"]]
       ELSE /\ shrk.work.shape[shrk.axis] <= target_dim(shrk).int
            /\ shrk' = [shrk EXCEPT !.axis = @ + 1]
    /\ UNCHANGED <<gridvars, depthvars, objvars, iso, cft, bdy, st3, ncgrid>>

\* line 94 (return a), and lines 70-72 of the two-array form: the second
\* call shrink(b, a.shape), then return (a, b)
shrink_return ==
    /\ shrk # None
    /\ IF shrk.pc = "loop1"
       THEN IF shrink_1d_dim(shrk) = None THEN TRUE
            ELSE shrk.work.shape[1] <= shrink_1d_dim(shrk).int
       ELSE shrk.pc = "loopN" /\ shrk.axis > ndim(shrk.work)
    /\ shrk' = IF shrk.pc = "loop1" /\ shrink_1d_dim(shrk) = None
               THEN [shrk EXCEPT !.pc = "raised", !.ret = [exception |-> "IndexError"]]
               ELSE IF "array" \in DOMAIN shrk.b /\ shrk.first = None
               THEN shrink_branch([shrk EXCEPT !.first = shrk.work],
                                  shrk.b.array, shrk.work.shape)
               ELSE IF "array" \in DOMAIN shrk.b
               THEN [shrk EXCEPT !.pc = "done", !.ret = <<shrk.first, shrk.work>>]
               ELSE [shrk EXCEPT !.pc = "done", !.ret = shrk.work]
    /\ UNCHANGED <<gridvars, depthvars, objvars, iso, cft, bdy, st3, ncgrid>>

NextShrink ==
    \/ shrink_enter
    \/ shrink_1d_step
    \/ shrink_nd_step
    \/ shrink_next_axis
    \/ shrink_return

SpecShrink == InitShrink /\ [][NextShrink]_vars

\* the tuple the call shrinks a towards, and whether it has an entry for
\* every axis of a
shrink_shape(fr) ==
    IF "array" \in DOMAIN fr.b THEN fr.b.array.shape
    ELSE IF "int" \in DOMAIN fr.b THEN <<fr.b.int>> ELSE fr.b.tuple

min_shape(shp, target) ==
    [k \in 1 .. Len(shp) |->
        IF shp[k] < target[Len(target) - Len(shp) + k]
        THEN shp[k] ELSE target[Len(target) - Len(shp) + k]]

\* the loop the frame is in would run its body once more
shrink_loop_continues(fr) ==
    IF fr.pc = "loop1"
    THEN IF shrink_1d_dim(fr) = None THEN FALSE ELSE fr.work.shape[1] > shrink_1d_dim(fr).int
    ELSE IF fr.pc = "loopN" /\ fr.axis <= ndim(fr.work)
    THEN IF target_dim(fr) = None THEN FALSE
         ELSE fr.work.shape[fr.axis] > target_dim(fr).int
    ELSE FALSE

shrink_loop_body(fr) ==
    IF fr.pc = "loop1" THEN shrink_1d_body(fr.work, shrink_1d_dim(fr).int)
    ELSE shrink_nd_body(fr.work, fr.axis, target_dim(fr).int)

\* C26: for a target shape with an entry for every axis of a, or a second
\* array of the dimensionality of a, every pass of
\* a while loop of shrink makes the array strictly shorter along the working
\* axis (so the call terminates), the call raises nothing, and the returned
\* array has length min(length of a, target length) along each axis, aligned
\* from the last axis; the two-array form returns two arrays of one shape,
\* the elementwise minimum of the two input shapes.
C26_ShrinkShape ==
    (/\ shrk # None
     /\ IF "array" \in DOMAIN shrk.b THEN ndim(shrk.b.array) = ndim(shrk.a)
        ELSE Len(shrink_shape(shrk)) >= ndim(shrk.a)) =>
        /\ shrk.pc # "raised"
        /\ shrink_loop_continues(shrk) =>
              LET k == IF shrk.pc = "loop1" THEN 1 ELSE shrk.axis
              IN  shrink_loop_body(shrk).shape[k] < shrk.work.shape[k]
        /\ (shrk.pc = "done" /\ "array" \notin DOMAIN shrk.b) =>
              shrk.ret.shape = min_shape(shrk.a.shape, shrink_shape(shrk))
        /\ (shrk.pc = "done" /\ "array" \in DOMAIN shrk.b) =>
              /\ shrk.ret[1].shape = min_shape(shrk.a.shape, shrk.b.array.shape)
              /\ shrk.ret[2].shape = shrk.ret[1].shape

C26_Witness ==
    /\ shrk # None /\ shrk.pc = "done" /\ "array" \in DOMAIN shrk.b
    /\ ndim(shrk.a) = 2
    /\ shrk.a.shape[1] - shrk.b.array.shape[1] >= 2
    /\ shrk.b.array.shape[2] - shrk.a.shape[2] = 1
    /\ shrk.ret[1].shape = <<shrk.b.array.shape[1], shrk.a.shape[2]>>
    /\ shrk.ret[2].shape = shrk.ret[1].shape

\* the N-D rule along axis k: the N-D loop run to its end
RECURSIVE shrink_nd_rule(_, _, _)
shrink_nd_rule(a, k, dim) ==
    IF a.shape[k] > dim THEN shrink_nd_rule(shrink_nd_body(a, k, dim), k, dim) ELSE a

\* C29: a 1-D array whose length exceeds the target by 2 or more is
\* returned as the N-D rule would shrink it along that axis: edges trimmed
\* in pairs, adjacent elements averaged only for a remaining excess of 1.
C29_OneDimMatchesNDRule ==
    (/\ shrk # None /\ shrk.pc = "done" /\ "array" \notin DOMAIN shrk.b
     /\ ndim(shrk.a) = 1
     /\ shrk.a.shape[1] - shrink_1d_dim(shrk).int >= 2)
        => shrk.ret = shrink_nd_rule(shrk.a, 1, shrink_1d_dim(shrk).int)

(***************************************************************************)
(* octant/tools.py: isoslice, iso_integrate, surface.  The record iso is   *)
(* one call: fn the wrapper, mode the mode argument of isoslice,           *)
(* same_shape and three_d what the assertions test, and after the call     *)
(* ret the returned array ([data, mask]; mask nomask for a plain ndarray)  *)
(* or the exception raised.  Values are kept as their decimal texts.       *)
(***************************************************************************)
MaxCols == 3

sentinel == "1e20"

nomask == [nomask |-> TRUE]

\* what a kernel of the extension module _iso (zslice, surface, integrate)
\* may hand back: one value per column, the sentinel where no crossing was
\* found
_iso_outputs == [1 .. MaxCols -> {sentinel, "0.0", "2.5"}]

\* np.ma.masked_where(out == 1e20, out)
ma_masked_where_sentinel(out) ==
    [data |-> out, mask |-> [c \in DOMAIN out |-> out[c] = sentinel]]

\* lines 192-194 and 213-217: mask only if np.any(out == 1e20)
masked_if_any_sentinel(out) ==
    IF \E c \in DOMAIN out : out[c] = sentinel
    THEN ma_masked_where_sentinel(out)
    ELSE [data |-> out, mask |-> nomask]

IsoCalls ==
    [fn : {"isoslice"}, mode : {"linear", "spline", "cubic"}, same_shape : BOOLEAN,
     three_d : {TRUE}]
    \cup [fn : {"surface"}, mode : {"none"}, same_shape : BOOLEAN, three_d : BOOLEAN]
    \cup [fn : {"iso_integrate"}, mode : {"none"}, same_shape : {TRUE}, three_d : {TRUE}]

InitIso ==
    /\ \E c \in IsoCalls :
          iso = [fn |-> c.fn, mode |-> c.mode, same_shape |-> c.same_shape,
                 three_d |-> c.three_d, pc |-> "called", ret |-> None]
    /\ no_grid /\ no_depths_call /\ no_depth_object /\ no_tools_but("iso")

isoslice ==
    /\ iso # None /\ iso.pc = "called" /\ iso.fn = "isoslice"
    /\ IF iso.mode \notin {"linear", "spline"}
       THEN iso' = [iso EXCEPT !.pc = "raised", !.ret = [exception |-> "Warning"]]
       ELSE IF ~iso.same_shape
       THEN iso' = [iso EXCEPT !.pc = "raised", !.ret = [exception |-> "AssertionError"]]
       ELSE \E q2d \in _iso_outputs :
               iso' = [iso EXCEPT !.pc = "returned", !.ret = masked_if_any_sentinel(q2d)]
    /\ UNCHANGED <<gridvars, depthvars, objvars, shrk, cft, bdy, st3, ncgrid>>

iso_integrate ==
    /\ iso # None /\ iso.pc = "called" /\ iso.fn = "iso_integrate"
    /\ \E q_int \in _iso_outputs :
          iso' = [iso EXCEPT !.pc = "returned", !.ret = [data |-> q_int, mask |-> nomask]]
    /\ UNCHANGED <<gridvars, depthvars, objvars, shrk, cft, bdy, st3, ncgrid>>

surface ==
    /\ iso # None /\ iso.pc = "called" /\ iso.fn = "surface"
    /\ IF ~iso.three_d \/ ~iso.same_shape
       THEN iso' = [iso EXCEPT !.pc = "raised", !.ret = [exception |-> "AssertionError"]]
       ELSE \E z_iso \in _iso_outputs :
               iso' = [iso EXCEPT !.pc = "returned", !.ret = masked_if_any_sentinel(z_iso)]
    /\ UNCHANGED <<gridvars, depthvars, objvars, shrk, cft, bdy, st3, ncgrid>>

NextIso ==
    \/ isoslice
    \/ iso_integrate
    \/ surface

SpecIso == InitIso /\ [][NextIso]_vars

\* C23: whatever isoslice, surface or iso_integrate returns, every column
\* where the kernel put the sentinel 1e20 is masked in the returned array:
\* no 1e20 is returned unmasked.
C23_NoSentinelReturned ==
    (iso # None /\ iso.pc = "returned") =>
        \A c \in DOMAIN iso.ret.data :
            iso.ret.data[c] = sentinel => (iso.ret.mask # nomask /\ iso.ret.mask[c])

(***************************************************************************)
(* octant/roms.py: nc_grid(nc).  The record ncgrid is one call: file the   *)
(* set of variable names of the NetCDF object, and after the call ang      *)
(* where the local ang came from, warned whether a warning was emitted,    *)
(* and ret the returned grid or the exception raised.                      *)
(***************************************************************************)
\* the names roms.py binds at module level (lines 5-11 and its own defs)
roms_names == {"datetime", "np", "netCDF4", "depths", "CGrid", "rho_to_vert"}

\* the names grid.py binds that rho_to_vert uses (grid.py lines 5-24)
grid_names == {"np", "pl", "warn", "deepcopy"}

\* the keyword parameters of CGrid.__init__ (grid.py line 516)
CGrid_parameters == {"x", "y", "proj", "mask", "f", "h"}

\* the keys of the dict variables (lines 87-98)
nc_grid_variables == {"h", "f", "pm", "pn", "angle", "theta_s", "theta_b", "hc", "mask"}

FileVariables ==
    SUBSET {"x_vert", "y_vert", "lon_vert", "lat_vert", "x_rho", "y_rho", "pm", "pn", "angle"}

\* grid.rho_to_vert (grid.py lines 840-842): its first statement calls empty
rho_to_vert_raises == "empty" \notin grid_names

nc_grid_outcome(file) ==
    IF {"x_vert", "y_vert"} \subseteq file
    THEN IF "isnan" \notin roms_names
         THEN [ang |-> "unset", warned |-> FALSE, ret |-> [exception |-> "NameError"]]
         ELSE [ang |-> "unset", warned |-> FALSE, ret |-> [grid |-> "Grid"]]
    ELSE IF {"lon_vert", "lat_vert"} \subseteq file
    THEN IF "Grid" \notin roms_names
         THEN [ang |-> "unset", warned |-> FALSE, ret |-> [exception |-> "NameError"]]
         ELSE [ang |-> "unset", warned |-> FALSE, ret |-> [grid |-> "Grid"]]
    ELSE IF ~({"x_rho", "y_rho", "pm", "pn"} \subseteq file)
    THEN [ang |-> "unset", warned |-> FALSE, ret |-> [exception |-> "ValueError"]]
    ELSE LET ang == IF "angle" \in file THEN "file" ELSE "zeros"
         IN  IF rho_to_vert_raises
             THEN [ang |-> ang, warned |-> FALSE, ret |-> [exception |-> "NameError"]]
             ELSE IF ~((nc_grid_variables \cup {"x", "y"}) \subseteq CGrid_parameters)
             THEN [ang |-> ang, warned |-> FALSE, ret |-> [exception |-> "TypeError"]]
             ELSE [ang |-> ang, warned |-> FALSE, ret |-> [grid |-> "CGrid"]]

InitNcGrid ==
    /\ \E file \in FileVariables :
          ncgrid = [file |-> file, pc |-> "called", ang |-> "unset", warned |-> FALSE,
                    ret |-> None]
    /\ no_grid /\ no_depths_call /\ no_depth_object /\ no_tools_but("ncgrid")

nc_grid ==
    /\ ncgrid # None /\ ncgrid.pc = "called"
    /\ ncgrid' = [ncgrid EXCEPT !.pc = "returned",
                                !.ang = nc_grid_outcome(ncgrid.file).ang,
                                !.warned = nc_grid_outcome(ncgrid.file).warned,
                                !.ret = nc_grid_outcome(ncgrid.file).ret]
    /\ UNCHANGED <<gridvars, depthvars, objvars, shrk, iso, cft, bdy, st3>>

(***************************************************************************)
(* octant/ocean/step3d_t.py: Step3d_t.  The record st3 is the object and   *)
(* its file: ocean_time the records' times, dt the file's time step,       *)
(* has_AKt whether the file holds AKt, trc_set whether the caller has      *)
(* assigned self.trc; then the attributes __init__ and step assign, with   *)
(* nrec the number of records in the cached slice _tidx, w0, w1 and        *)
(* stepped_at the weights and the time of the last step, warned whether    *)
(* the warning was printed, raised the exception of the last call.         *)
(***************************************************************************)
MaxRec == 3
MaxT == 3
MaxDt == 2

\* ocean_time of a file: record times that do not decrease
OceanTimes ==
    {s \in UNION {[1 .. n -> 0 .. MaxT] : n \in 1 .. MaxRec} :
        \A i \in 1 .. (Len(s) - 1) : s[i] <= s[i + 1]}

InitStep3d ==
    /\ \E ot \in OceanTimes, dt \in 1 .. MaxDt, akt \in BOOLEAN, trc \in BOOLEAN :
          st3 = [ocean_time |-> ot, dt |-> dt, has_AKt |-> akt, trc_set |-> trc,
                 pc |-> "new", time |-> 0, _lidx |-> -999, _uidx |-> None,
                 _tstart |-> 0, _tend |-> 0, nrec |-> 0, _AKti |-> "unset",
                 _AKt_bak |-> "unset", w0 |-> None, w1 |-> None, stepped_at |-> 0,
                 warned |-> FALSE, raised |-> ""]
    /\ no_grid /\ no_depths_call /\ no_depth_object /\ no_tools_but("st3")

\* lines 20-36, called with an open dataset and a grid
Step3d_t_init ==
    /\ st3 # None /\ st3.pc = "new"
    /\ st3' = [st3 EXCEPT !.pc = "ready",
                          !.time = st3.ocean_time[1],
                          !._lidx = -999,
                          !.warned = ~st3.has_AKt,
                          !._AKt_bak = IF st3.has_AKt THEN "unset" ELSE "AKt_bak"]
    /\ UNCHANGED <<gridvars, depthvars, objvars, shrk, iso, cft, bdy, ncgrid>>

\* line 41: argwhere(abs(self._ocean_time <= self.time)).max()
last_record_at_or_before(ot, time) ==
    CHOOSE i \in 1 .. Len(ot) :
        /\ ot[i] <= time
        /\ \A j \in 1 .. Len(ot) : ot[j] <= time => j <= i

\* a slip: the slice ends one record early
upper_index_one_short(lidx, n) ==
    IF lidx + 1 >= n THEN None ELSE [int |-> lidx + 1]

\* lines 44-45: _uidx = lidx+2, None at or past the end (0-based lidx)
upper_index(lidx, n) ==
    IF lidx + 2 >= n THEN None ELSE [int |-> lidx + 2]

\* the number of records of ocean_time[slice(lidx, uidx)]
slice_length(lidx, uidx, n) ==
    IF uidx = None THEN n - lidx ELSE uidx.int - lidx

\* lines 38-73: one call of step(static)
step ==
    /\ st3 # None /\ st3.pc = "ready"
    /\ \E static \in BOOLEAN :
        LET n == Len(st3.ocean_time)
            lidx == last_record_at_or_before(st3.ocean_time, st3.time) - 1
            moved == lidx # st3._lidx
            uidx == IF moved THEN upper_index(lidx, n) ELSE st3._uidx
            nrec == IF moved THEN slice_length(lidx, uidx, n) ELSE st3.nrec
            tstart == IF moved THEN st3.ocean_time[lidx + 1] ELSE st3._tstart
            tend == IF moved THEN st3.ocean_time[lidx + nrec] ELSE st3._tend
            AKti == IF ~moved THEN st3._AKti
                    ELSE IF st3.has_AKt THEN "file" ELSE "AKt_bak"
            w0 == IF tend = tstart THEN NotFinite ELSE Q(tend - st3.time, tend - tstart)
            w1 == IF tend = tstart THEN NotFinite ELSE rsub(Z(1), w0)
            cached == [st3 EXCEPT !._lidx = lidx, !._uidx = uidx, !.nrec = nrec,
                                  !._tstart = tstart, !._tend = tend, !._AKti = AKti,
                                  !.w0 = w0, !.w1 = w1, !.stepped_at = st3.time]
        IN  st3' = IF nrec < 2
                   THEN [cached EXCEPT !.raised = "IndexError"]
                   ELSE IF ~st3.trc_set
                   THEN [cached EXCEPT !.raised = "AttributeError"]
                   ELSE [cached EXCEPT !.raised = "",
                                       !.time = IF static THEN @ ELSE @ + st3.dt]
    /\ UNCHANGED <<gridvars, depthvars, objvars, shrk, iso, cft, bdy, ncgrid>>

InitOcean == InitNcGrid \/ InitStep3d

NextOcean ==
    \/ nc_grid
    \/ Step3d_t_init
    \/ step

SpecOcean == InitOcean /\ [][NextOcean]_vars

\* a step of the object has run and left its weights
has_stepped == st3 # None /\ st3.pc = "ready" /\ st3.w0 # None

last_time == st3.ocean_time[Len(st3.ocean_time)]

\* the cached window brackets the time of the last step with two records,
\* and the weights are proper
window_brackets ==
    /\ st3.nrec = 2
    /\ st3._tstart <= st3.stepped_at /\ st3.stepped_at <= st3._tend
    /\ st3._tstart < st3._tend
    /\ rle(Z(0), st3.w0) /\ rle(st3.w0, Z(1))
    /\ rle(Z(0), st3.w1) /\ rle(st3.w1, Z(1))
    /\ radd(st3.w0, st3.w1) = Z(1)
    /\ st3.raised # "IndexError"

\* C24: a file with x_rho, y_rho, pm and pn but no angle makes nc_grid
\* return a grid built with a zero angle array, and a file without AKt
\* makes Step3d_t use AKt_bak; both emit a warning and raise nothing.
C24_OptionalVariablesFallBack ==
    /\ (/\ ncgrid # None /\ ncgrid.pc = "returned"
        /\ "angle" \notin ncgrid.file
        /\ {"x_rho", "y_rho", "pm", "pn"} \subseteq ncgrid.file
        /\ ~({"x_vert", "y_vert"} \subseteq ncgrid.file)
        /\ ~({"lon_vert", "lat_vert"} \subseteq ncgrid.file))
           => (/\ "grid" \in DOMAIN ncgrid.ret
               /\ ncgrid.ang = "zeros"
               /\ ncgrid.warned)
    /\ (st3 # None /\ st3.pc = "ready" /\ ~st3.has_AKt)
           => (/\ st3.warned
               /\ st3._AKt_bak = "AKt_bak"
               /\ st3._AKti \in {"unset", "AKt_bak"}
               /\ (has_stepped /\ st3.trc_set /\ st3.stepped_at < last_time)
                     => st3.raised = "")

\* C28 as stated: after every step the cached window holds two records
\* that bracket the time of the step, tstart < tend, the weights lie in
\* [0, 1] and sum to 1, and the step did not index a missing second record.
C28_WindowBrackets ==
    has_stepped => window_brackets

\* C28, amended: the same after every step taken at a time before the last
\* record of ocean_time.
C28_WindowBracketsBeforeLastRecord ==
    (has_stepped /\ st3.stepped_at < last_time) => window_brackets

C28_Witness ==
    /\ has_stepped /\ st3.stepped_at < last_time
    /\ st3._lidx >= 1 /\ st3.raised = ""
    /\ st3.time = st3.stepped_at + st3.dt
    /\ rlt(Z(0), st3.w0) /\ rlt(st3.w0, Z(1))

(***************************************************************************)
(* octant/cf.py: class time.  The record cft is one time object: data the  *)
(* stored values, units and origin the unit and the reference date that    *)
(* netcdftime.utime parsed from the units attribute ("<units> since        *)
(* <origin>"), and read the property read last with the array it returned. *)
(* Values are exact rationals.                                             *)
(***************************************************************************)
MaxTimes == 2

\* lines 24-29; the entry for years, 3600.0*24.0*365.242198781, is left
\* out: utime accepts no such unit
_unit2sec ==
    [u \in {"seconds", "minutes", "hours", "days", "weeks"} |->
        CASE u = "seconds" -> Z(1)
          [] u = "minutes" -> Z(60)
          [] u = "hours" -> Z(3600)
          [] u = "days" -> Z(3600 * 24)
          [] u = "weeks" -> Z(3600 * 24 * 7)]

\* a slip: days converted with the factor of hours
_sec2unit_days_as_hours ==
    [u \in {"seconds", "minutes", "hours", "days"} |->
        CASE u = "seconds" -> Z(1)
          [] u = "minutes" -> Q(1, 60)
          [] u = "hours" -> Q(1, 3600)
          [] u = "days" -> Q(1, 3600)]

\* lines 31-34
_sec2unit ==
    [u \in {"seconds", "minutes", "hours", "days"} |->
        CASE u = "seconds" -> Z(1)
          [] u = "minutes" -> Q(1, 60)
          [] u = "hours" -> Q(1, 3600)
          [] u = "days" -> Q(1, 24 * 3600)]

\* self*fac
times_fac(data, fac) == [i \in DOMAIN data |-> rmul(data[i], fac)]

\* lines 77-91: get_seconds, get_minutes, get_hours, get_days
get_units(obj, target) ==
    LET fac == rmul(_unit2sec[obj.units], _sec2unit[target])
    IN  times_fac(obj.data, fac)

StoredTimes ==
    UNION {[1 .. n -> {Z(0), Z(432), Z(21600), Q(1, 2)}] : n \in 1 .. MaxTimes}

InitTime ==
    /\ \E data \in StoredTimes, units \in {"seconds", "minutes", "hours", "days"},
          origin \in {"0000-01-01 00:00:00", "1970-01-01 00:00:00"} :
          cft = [data |-> data, units |-> units, origin |-> origin, read |-> None]
    /\ no_grid /\ no_depths_call /\ no_depth_object /\ no_tools_but("cft")

seconds ==
    /\ cft # None
    /\ cft' = [cft EXCEPT !.read = [property |-> "seconds",
                                    value |-> get_units(cft, "seconds")]]
    /\ UNCHANGED <<gridvars, depthvars, objvars, shrk, iso, bdy, st3, ncgrid>>

minutes ==
    /\ cft # None
    /\ cft' = [cft EXCEPT !.read = [property |-> "minutes",
                                    value |-> get_units(cft, "minutes")]]
    /\ UNCHANGED <<gridvars, depthvars, objvars, shrk, iso, bdy, st3, ncgrid>>

hours ==
    /\ cft # None
    /\ cft' = [cft EXCEPT !.read = [property |-> "hours",
                                    value |-> get_units(cft, "hours")]]
    /\ UNCHANGED <<gridvars, depthvars, objvars, shrk, iso, bdy, st3, ncgrid>>

days ==
    /\ cft # None
    /\ cft' = [cft EXCEPT !.read = [property |-> "days",
                                    value |-> get_units(cft, "days")]]
    /\ UNCHANGED <<gridvars, depthvars, objvars, shrk, iso, bdy, st3, ncgrid>>

NextTime ==
    \/ seconds
    \/ minutes
    \/ hours
    \/ days

SpecTime == InitTime /\ [][NextTime]_vars

\* the number of seconds in one of a unit, as the calendar has it
seconds_in(u) ==
    CASE u = "seconds" -> 1
      [] u = "minutes" -> 60
      [] u = "hours" -> 3600
      [] u = "days" -> 86400

\* C25: whatever the reference date, a property of a time object returns
\* each stored value converted from the file's unit to the property's unit:
\* for values stored in seconds, seconds returns them as they are and days
\* returns them divided by 86400.
C25_TimeUnits ==
    (cft # None /\ cft.read # None) =>
        /\ DOMAIN cft.read.value = DOMAIN cft.data
        /\ \A i \in DOMAIN cft.data :
              /\ cft.read.value[i] =
                    rdiv(rmul(cft.data[i], Z(seconds_in(cft.units))),
                         Z(seconds_in(cft.read.property)))
              /\ (cft.units = "seconds" /\ cft.read.property = "seconds")
                    => cft.read.value[i] = cft.data[i]
              /\ (cft.units = "seconds" /\ cft.read.property = "days")
                    => cft.read.value[i] = rdiv(cft.data[i], Z(86400))

C25_Witness ==
    /\ cft # None /\ cft.read # None
    /\ cft.units = "seconds" /\ cft.read.property = "days"
    /\ cft.origin = "0000-01-01 00:00:00"
    /\ cft.data = <<Z(432), Z(21600)>>
    /\ cft.read.value = <<Q(1, 200), Q(1, 4)>>

(***************************************************************************)
(* octant/getm.py: class Bdy2d, opened with mode 'w' and a given nbdy.     *)
(* The record bdy is the object and its file: _nbdy, _updatefields and     *)
(* _tnum the attributes, ntime the length of the file's unlimited time     *)
(* dimension, last the arguments of the last putdata call and raised the   *)
(* exception it ended with.                                                *)
(***************************************************************************)
MaxPuts == 3
MaxNbdy == 2

\* lines 99-136, mode 'w', nbdy given
InitBdy2d ==
    /\ \E nbdy \in 1 .. MaxNbdy, updatefields \in BOOLEAN :
          bdy = [_nbdy |-> nbdy, _updatefields |-> updatefields, _tnum |-> 0,
                 ntime |-> 0, last |-> None, raised |-> ""]
    /\ no_grid /\ no_depths_call /\ no_depth_object /\ no_tools_but("bdy")

\* writing record tind of a variable along the unlimited dimension
\* (lines 162-163) extends the dimension to hold it
written_length(ntime, tind) == IF tind + 1 > ntime THEN tind + 1 ELSE ntime

\* lines 144-171: putdata(time, data, tind) with data of length nmax
putdata ==
    /\ bdy # None /\ bdy._tnum < MaxPuts
    /\ \E nmax \in 1 .. MaxNbdy, tind_given \in BOOLEAN, tind_arg \in 0 .. MaxPuts :
        LET tind == IF tind_given THEN tind_arg ELSE bdy._tnum
            given == [nmax |-> nmax, tind |-> IF tind_given THEN [int |-> tind_arg] ELSE None]
        IN  bdy' = IF nmax = bdy._nbdy
                   THEN [bdy EXCEPT !.ntime = written_length(bdy.ntime, tind),
                                    !._tnum = @ + 1,
                                    !.last = given,
                                    !.raised = IF bdy._updatefields
                                               THEN "AttributeError" ELSE ""]
                   ELSE [bdy EXCEPT !.last = given, !.raised = "NameError"]
    /\ UNCHANGED <<gridvars, depthvars, objvars, shrk, iso, cft, st3, ncgrid>>

NextBdy2d == putdata

SpecBdy2d == InitBdy2d /\ [][NextBdy2d]_vars

\* C27: after every putdata call on a Bdy2d opened for writing with a
\* given nbdy, tnum is the number of timesteps stored in the file, one more
\* than the highest time index written, and a call whose data length
\* differs from nbdy leaves tnum unchanged.
C27_TnumCountsTimesteps ==
    [][(bdy # None /\ bdy' # None) =>
          /\ bdy'._tnum = bdy'.ntime
          /\ (bdy'.last # None /\ bdy'.last.nmax # bdy'._nbdy) => bdy'._tnum = bdy._tnum]_vars

====
